---- MODULE Spec2Model ----
(***************************************************************************)
(* The annotation import scripts of annotation-bot: the GFF folder         *)
(* importer (PostgreSQL), the two TSV importers (PostgreSQL and SQLite)    *)
(* and the JSON importer, each run against a database that persists from   *)
(* one run of the script to the next.                                      *)
(***************************************************************************)
EXTENDS Integers, Sequences, FiniteSets, TLC

VARIABLES
    script,     \* which of the four scripts this process is
    dir,        \* the names in the folder given on the command line
    run,        \* number of the current run of the script (the database persists)
    pc,         \* position of the main (sequential) control flow
    files,      \* the matched files of this run, in listing order
    i,          \* loop index of the folder-level driver (0-based, as in the code)
    outcome,    \* per matched file of this run: "ok" / "fail" as seen by the driver
    exitCode,   \* -1 while running, else the process exit code
    report,     \* the end-of-run line written to the log ("none" before)
    db,         \* the committed content of the database
    db0,        \* history: db when the import in progress (else the run) began
    tx,         \* the open transaction of the client: [active, db (working copy)]
    serial,     \* the SERIAL / AUTOINCREMENT counters (not transactional)
    client,     \* number of pool clients checked out
    cur,        \* locals of the file-level driver for the file in progress
    err,        \* the pending exception ("none" when there is none)
    txlog,      \* transaction statements issued for the file in progress
    logged,     \* the counts written to the log by the last successful import
    jf,         \* JSON importer: state of each processFile operation
    promises,   \* JSON importer: the in-flight array of processDirectory
    poolEnded,  \* JSON importer: pool.end() has been called
    attrIn,     \* attribute parser: the attribute column under test
    attrOut,    \* attribute parser: the mapping it produced
    colIn,      \* data line under test: its start, end, score, strand, phase
    colOut      \* the row pushed to batchValues for it

vars == <<script, dir, db0, run, pc, files, i, outcome, exitCode, report, db, tx, serial,
          client, cur, err, txlog, logged, jf, promises, poolEnded, attrIn, attrOut,
          colIn, colOut>>

procVars == <<script, dir, db0, run, pc, files, i, outcome, exitCode, report, client, cur,
              err, txlog, logged>>
jsonVars == <<jf, promises, poolEnded>>
attrVars == <<attrIn, attrOut, colIn, colOut>>

(***************************************************************************)
(* Bounds of the model.                                                    *)
(***************************************************************************)
MaxRuns  == 2      \* runs of a script against the same database
MaxLines == 2      \* lines of a GFF / TSV file
MaxOtherLines == 1 \* lines of the files after the first of the folder
MaxBatchLines == 5 \* lines of the file d, which holds data lines only
BATCH_SIZE == 2    \* GFF importer: rows per multi-row insert (1000), scaled
batchSize == 2     \* PostgreSQL TSV importer: lines per batch (1000), scaled
batchSizeSqlite == 1 \* SQLite TSV importer: lines per batch (500), scaled
MaxAttrLen == 5    \* characters of an attribute column
MaxPosLen == 2     \* characters of a start / end column
MaxJsonFiles == 5  \* JSON files of the folder of the JSON importer
MaxFeatures == 1   \* features of the first JSON file of the folder
MaxOtherFeatures == 0   \* features of every other JSON file

\* `if (promises.length >= 4)` of processDirectory
InFlightCap == 4

(***************************************************************************)
(* Sequence helpers.                                                       *)
(***************************************************************************)
SeqsUpTo(S, n) == UNION { [1..k -> S] : k \in 0..n }

Count(s, Test(_)) == Len(SelectSeq(s, Test))

Last(s) == s[Len(s)]

(***************************************************************************)
(* Strings.  A text the code takes apart (the attribute column) is a       *)
(* sequence of one-character strings; a text the code only stores or       *)
(* compares is a TLA+ string.                                              *)
(***************************************************************************)
SP == " "

RECURSIVE SplitFrom(_, _, _, _)
\* String.prototype.split(sep) for a one-character separator: the pieces of
\* s between occurrences of sep (always at least one piece)
SplitFrom(s, sep, k, acc) ==
    IF k > Len(s) THEN <<acc>>
    ELSE IF s[k] = sep THEN <<acc>> \o SplitFrom(s, sep, k + 1, <<>>)
    ELSE SplitFrom(s, sep, k + 1, Append(acc, s[k]))

Split(s, sep) == SplitFrom(s, sep, 1, <<>>)

Includes(s, ch) == \E k \in 1..Len(s) : s[k] = ch

RECURSIVE TrimStart(_)
TrimStart(s) == IF s # <<>> /\ Head(s) = SP THEN TrimStart(Tail(s)) ELSE s

RECURSIVE TrimEnd(_)
TrimEnd(s) ==
    IF s # <<>> /\ Last(s) = SP THEN TrimEnd(SubSeq(s, 1, Len(s) - 1)) ELSE s

\* String.prototype.trim()
Trim(s) == TrimEnd(TrimStart(s))

(***************************************************************************)
(* The attribute parser of processGffFile.  A JavaScript object is a       *)
(* function from its keys to their values; assigning to a key that is      *)
(* present overwrites its value.                                           *)
(***************************************************************************)
EmptyObj == [k \in {} |-> <<>>]

SetKey(obj, key, value) ==
    [k \in DOMAIN obj \cup {key} |-> IF k = key THEN value ELSE obj[k]]

\* one iteration of `for (const pair of attrPairs)`
ParsePair(obj, pair) ==
    IF ~Includes(pair, "=")
    THEN LET colonSplit == Split(pair, ":")
         IN  IF Len(colonSplit) = 2
             THEN SetKey(obj, Trim(colonSplit[1]), Trim(colonSplit[2]))
             ELSE obj
    ELSE LET parts == Split(pair, "=")
             key   == parts[1]
             value == parts[2]      \* destructuring keeps the first two pieces
         IN  IF key # <<>> /\ value # <<>>
             THEN SetKey(obj, Trim(key), Trim(value))
             ELSE obj

RECURSIVE ParsePairs(_, _, _)
ParsePairs(obj, attrPairs, k) ==
    IF k > Len(attrPairs) THEN obj
    ELSE ParsePairs(ParsePair(obj, attrPairs[k]), attrPairs, k + 1)

\* `if (attributesStr) { ... }`: the empty string is falsy
ParseAttributes(attributesStr) ==
    IF attributesStr = <<>> THEN EmptyObj
    ELSE ParsePairs(EmptyObj, Split(attributesStr, ";"), 1)

(***************************************************************************)
(* parseInt, on the column texts the model uses.                           *)
(***************************************************************************)
NaN == [nan |-> TRUE, v |-> 0]
Num(n) == [nan |-> FALSE, v |-> n]

\* the value of a digit character (16 and more: not a digit of any radix used)
DigitValue(c) ==
    CASE c = "0" -> 0 [] c = "1" -> 1 [] c = "2" -> 2 [] c = "3" -> 3 [] c = "4" -> 4
      [] c = "5" -> 5 [] c = "6" -> 6 [] c = "7" -> 7 [] c = "8" -> 8 [] c = "9" -> 9
      [] c \in {"a", "A"} -> 10 [] c \in {"b", "B"} -> 11 [] c \in {"c", "C"} -> 12
      [] c \in {"d", "D"} -> 13 [] c \in {"e", "E"} -> 14 [] c \in {"f", "F"} -> 15
      [] OTHER -> 16

\* the length of the longest prefix of s made of digits of the radix
RECURSIVE DigitPrefix(_, _)
DigitPrefix(s, radix) ==
    IF s # <<>> /\ DigitValue(Head(s)) < radix
    THEN 1 + DigitPrefix(Tail(s), radix) ELSE 0

\* the number the digits of s denote in the radix
RECURSIVE DigitsToNumber(_, _)
DigitsToNumber(s, radix) ==
    IF s = <<>> THEN 0
    ELSE DigitsToNumber(SubSeq(s, 1, Len(s) - 1), radix) * radix + DigitValue(s[Len(s)])

\* parseInt(string) of a string given by its characters: leading white space
\* is skipped, a sign and a 0x / 0X prefix are read, then the longest prefix
\* of digits; NaN when there is no digit
ParseInt(s) ==
    LET t     == TrimStart(s)
        neg   == t # <<>> /\ Head(t) = "-"
        u     == IF t # <<>> /\ Head(t) \in {"+", "-"} THEN Tail(t) ELSE t
        hex   == Len(u) >= 2 /\ u[1] = "0" /\ u[2] \in {"x", "X"}
        radix == IF hex THEN 16 ELSE 10
        body  == IF hex THEN SubSeq(u, 3, Len(u)) ELSE u
        n     == DigitPrefix(body, radix)
        value == DigitsToNumber(SubSeq(body, 1, n), radix)
    IN  IF n = 0 THEN NaN
        ELSE Num(IF neg THEN 0 - value ELSE value)

\* `parseInt(x) || 1`: NaN and 0 are falsy
OrOne(p) == IF p.nan \/ p.v = 0 THEN 1 ELSE p.v

\* `x === '.' ? null : x`
NULL == "NULL"

\* the column is persisted as it stands in the file
DotNull_Literal(x) == x

DotNull(x) == IF x = "." THEN NULL ELSE x

(***************************************************************************)
(* Files.  A line is given by what the code tests of it: k is the branch   *)
(* its prefix selects, n the number of tab-separated columns, cols its     *)
(* first eight columns (for a header line: its space-separated parts) and  *)
(* attrs its ninth column.  A column the code gives to parseInt is the     *)
(* sequence of its characters.                                             *)
(***************************************************************************)
Line(k, n, cols, attrs) == [k |-> k, n |-> n, cols |-> cols, attrs |-> attrs]

BlankLine   == Line("blank", 1, <<>>, <<>>)
CommentLine == Line("comment", 1, <<<<"#">>>>, <<>>)
RegionLine  == Line("region", 1, <<"##sequence-region", "chr1", <<"1">>,
                                    <<"1", "0", "0", "0">>>>, <<>>)
SpeciesLine == Line("species", 1, <<"##species", "http://taxon/9606">>, <<>>)
DataLine1   == Line("data", 9, <<"chr1", "src", "gene", <<"1">>, <<"5">>, ".", "+", ".">>,
                    <<"I", "=", "g">>)
DataLine2   == Line("data", 9, <<"chr2", "src", "CDS", <<"x">>, <<"7">>, "0.5", ".", "0">>,
                    <<"N", ":", "t">>)
ShortLine   == Line("data", 8, <<"chr1", "src", "gene", <<"1">>, <<"5">>, ".", "+", ".">>,
                    <<>>)

GffLines == {BlankLine, CommentLine, RegionLine, SpeciesLine, DataLine1, DataLine2,
             ShortLine}

\* header pragmas: the first space-separated part of the line is given by its
\* pieces (so that one pragma can be a prefix of another), the second part is
\* the value the line carries
Pragma(pieces, value) == Line("comment", 1, <<pieces, value>>, <<>>)

VersionLine   == Pragma(<<"##gff-version">>, "3")
BuildLine     == Pragma(<<"#!genome-build">>, "GRCh38")
AccessionLine == Pragma(<<"#!genome-build", "-accession">>, "GCF_1")
DateLine      == Pragma(<<"#!annotation", "-date">>, "2020-01-01")
SourceLine    == Pragma(<<"#!annotation", "-source">>, "RefSeq")
NoteLine      == Pragma(<<"#note">>, "text")

HeaderLines == {VersionLine, BuildLine, AccessionLine, DateLine, SourceLine, NoteLine}

\* the lines a file may hold: the file h.gff is the one with every header
\* pragma, the files s.gff, p.gff and q.gff hold few kinds of lines (p.gff
\* and q.gff only lines that write to the database)
LinesOf(fileName) ==
    CASE fileName.stem = "h" -> HeaderLines \cup {RegionLine, SpeciesLine, DataLine1}
      [] fileName.stem = "d" -> {DataLine1, DataLine2, ShortLine}
      [] fileName.stem = "s" -> {VersionLine, RegionLine, SpeciesLine, DataLine1,
                                 ShortLine}
      [] fileName.stem \in {"p", "q"} ->
             {VersionLine, RegionLine, SpeciesLine, DataLine1}
      [] OTHER -> GffLines \cup {VersionLine}

\* line.startsWith(prefix), on the first part of a header line
StartsWith(pieces, prefix) ==
    /\ Len(prefix) <= Len(pieces)
    /\ SubSeq(pieces, 1, Len(prefix)) = prefix

\* the if / else-if chain over the header pragmas: the column of gff_files
\* the UPDATE of the first matching branch sets ("none": no branch matches)
HeaderField(line) ==
    LET first == line.cols[1]
    IN  IF StartsWith(first, <<"##gff-version">>) THEN "version"
        ELSE IF StartsWith(first, <<"#!genome-build">>) THEN "genome_build"
        ELSE IF StartsWith(first, <<"#!genome-build", "-accession">>)
             THEN "genome_build_accession"
        ELSE IF StartsWith(first, <<"#!annotation", "-date">>) THEN "annotation_date"
        ELSE IF StartsWith(first, <<"#!annotation", "-source">>)
             THEN "annotation_source"
        ELSE "none"

IsPragma(line) == line.k = "comment" /\ Len(line.cols) = 2 /\ HeaderField(line) # "none"

\* the sizes fs.stat may report, in lines: the first file of the folder is the
\* one whose content varies freely
Sizes(fileName) ==
    CASE fileName.stem \in {"a", "h", "s"} -> 0..MaxLines
      [] fileName.stem = "d" -> 0..MaxBatchLines
      [] OTHER -> 0..MaxOtherLines

(***************************************************************************)
(* Directory listings.  A name is a stem and an extension.                 *)
(***************************************************************************)
Name(stem, ext) == [stem |-> stem, ext |-> ext]

\* String.prototype.toLowerCase on the extensions the model uses
ToLower(ext) ==
    CASE ext = ".GFF3" -> ".gff3"
      [] ext = ".TSV"  -> ".tsv"
      [] ext = ".JSON" -> ".json"
      [] OTHER         -> ext

\* isGffFile
isGffFile(filename) == ToLower(filename.ext) \in {".gff", ".gff3"}

GffDir == <<Name("a", ".gff"), Name("b", ".GFF3"), Name("n", ".txt")>>

\* the folders the script may be given: the sub-listings of d, in order
Folders(d) ==
    { SelectSeq(d, LAMBDA e : e \in S) : S \in SUBSET { d[k] : k \in 1..Len(d) } }

(***************************************************************************)
(* The database.  A table is the sequence of its rows in insertion order   *)
(* (the order of their serial keys).                                       *)
(***************************************************************************)
EmptyDb ==
    [gff_files |-> <<>>, gff_features |-> <<>>, sequence_regions |-> <<>>,
     genomes |-> <<>>, annotations |-> <<>>, schema |-> FALSE,
     json_genomes |-> {}, json_features |-> {}, json_children |-> {},
     ddl |-> "fitting"]

NoTx == [active |-> FALSE, db |-> EmptyDb]

\* what a statement of the client sees
View == IF tx.active THEN tx.db ELSE db

\* the statement is run outside the client's transaction (as pool.query would)
Write_Autocommit(newdb) ==
    /\ db' = newdb
    /\ tx' = [tx EXCEPT !.db = newdb]

\* the effect of a statement that leaves the database as newdb: inside the open
\* transaction it stays in the working copy, outside it is committed at once
Write(newdb) ==
    IF tx.active THEN /\ tx' = [tx EXCEPT !.db = newdb]
                      /\ db' = db
                 ELSE /\ db' = newdb
                      /\ tx' = tx

NoCur ==
    [fileName |-> Name("", ""), content |-> <<>>, fileSize |-> 0,
     fileId |-> 0, lineCount |-> 0, featureCount |-> 0, sequenceRegionCount |-> 0,
     batchValues |-> <<>>, dataLines |-> <<>>, batchIndex |-> 0,
     inserts |-> <<>>]

\* what the import of the current file has written: the counts of the success
\* log, and the messages on standard error
NoLog == [file |-> Name("", ""), fileId |-> 0, lines |-> 0, features |-> 0,
          regions |-> 0, stderr |-> <<>>]

\* console.error(`... ${file}:`, error): the file the text names (NoName when
\* it names none) and the error object printed with it
NoName == Name("", "")
Msg(file, error) == [file |-> file, error |-> error]
ConsoleError(file, error) == logged' = [logged EXCEPT !.stderr = Append(@, Msg(file, error))]

\* an exception: the error first raised, and the error now propagating (the two
\* differ when the catch clause itself fails)
NoErr == [first |-> "none", now |-> "none"]
Err(e) == [first |-> e, now |-> e]

\* a failing awaited call inside the try block: control goes to the catch clause
Throw(e) ==
    /\ err' = Err(e)
    /\ pc' = "catch"

(***************************************************************************)
(* GFF importer: processGffFile.                                           *)
(***************************************************************************)
\* the fileMetadata object and the INSERT INTO gff_files row built from it
FileRow(fileId, fileName, fileSize) ==
    [file_id |-> fileId, filename |-> fileName, original_path |-> fileName,
     file_size |-> fileSize, version |-> NULL, genome_build |-> NULL,
     genome_build_accession |-> NULL, annotation_date |-> NULL,
     annotation_source |-> NULL]

\* the row pushed to batchValues for a data line
FeatureRow(fileId, line) ==
    [file_id |-> fileId, seqid |-> line.cols[1], source |-> line.cols[2],
     type |-> line.cols[3],
     start |-> OrOne(ParseInt(line.cols[4])), end |-> OrOne(ParseInt(line.cols[5])),
     score |-> DotNull(line.cols[6]), strand |-> DotNull(line.cols[7]),
     phase |-> DotNull(line.cols[8]), attributes |-> ParseAttributes(line.attrs)]

\* the row of INSERT INTO sequence_regions
RegionRow(fileId, parts) ==
    [file_id |-> fileId, seqid |-> parts[2], start |-> ParseInt(parts[3]),
     end |-> ParseInt(parts[4]), species_url |-> NULL]

OfFile(table, fileId) == SelectSeq(table, LAMBDA r : r.file_id = fileId)
NotOfFile(table, fileId) == SelectSeq(table, LAMBDA r : r.file_id # fileId)

\* UPDATE sequence_regions SET species_url ... WHERE region_id = (SELECT MAX(region_id)
\* ... WHERE file_id = $2): the last region row of the file, if any
SetSpecies_AnyFile(regions, fileId, url) ==
    IF regions = <<>> THEN regions
    ELSE [regions EXCEPT ![Len(regions)].species_url = url]

SetSpecies(regions, fileId, url) ==
    LET own == { k \in 1..Len(regions) : regions[k].file_id = fileId }
    IN  IF own = {} THEN regions
        ELSE LET m == CHOOSE k \in own : \A j \in own : j <= k
             IN  [regions EXCEPT ![m].species_url = url]

\* const fileStats = await fs.promises.stat(filePath): outside the try block, a
\* failure leaves processGffFile at once
G_Stat ==
    /\ script = "gff" /\ pc = "stat"
    /\ \/ \E size \in Sizes(cur.fileName) :
            /\ cur' = [cur EXCEPT !.fileSize = size]
            /\ pc' = "connect"
            /\ err' = err
       \/ /\ err' = Err("ENOENT")
          /\ pc' = "thrown"
          /\ cur' = cur
    /\ UNCHANGED <<script, dir, db0, run, files, i, outcome, exitCode, report, db, tx, serial,
                   client, txlog, logged>>
    /\ UNCHANGED <<jsonVars, attrVars>>

\* const client = await pool.connect()
G_Connect ==
    /\ script = "gff" /\ pc = "connect"
    /\ \/ /\ client' = client + 1
          /\ pc' = "begin"
          /\ err' = err
       \/ /\ err' = Err("ECONNREFUSED")
          /\ pc' = "thrown"
          /\ client' = client
    /\ UNCHANGED <<script, dir, db0, run, files, i, outcome, exitCode, report, db, tx, serial,
                   cur, txlog, logged>>
    /\ UNCHANGED <<jsonVars, attrVars>>

\* await client.query('BEGIN')
G_Begin ==
    /\ script = "gff" /\ pc = "begin"
    /\ \/ /\ tx' = [active |-> TRUE, db |-> db]
          /\ txlog' = Append(txlog, "BEGIN")
          /\ pc' = "lookup"
          /\ err' = err
       \/ /\ txlog' = Append(txlog, "BEGIN failed")
          /\ Throw("db error")
          /\ tx' = tx
    /\ UNCHANGED <<script, dir, db0, run, files, i, outcome, exitCode, report, db, serial,
                   client, cur, logged>>
    /\ UNCHANGED <<jsonVars, attrVars>>

\* SELECT file_id FROM gff_files WHERE filename = $1, and the branch on its rows
G_Lookup ==
    /\ script = "gff" /\ pc = "lookup"
    /\ \/ LET existingFile ==
                  SelectSeq(View.gff_files, LAMBDA r : r.filename = cur.fileName)
          IN  /\ IF Len(existingFile) > 0
                 THEN /\ cur' = [cur EXCEPT !.fileId = existingFile[1].file_id]
                      /\ pc' = "deleteFeatures"
                 ELSE /\ cur' = cur
                      /\ pc' = "insertFile"
              /\ err' = err
       \/ /\ Throw("db error")
          /\ cur' = cur
    /\ UNCHANGED <<script, dir, db0, run, files, i, outcome, exitCode, report, db, tx, serial,
                   client, txlog, logged>>
    /\ UNCHANGED <<jsonVars, attrVars>>

\* the update path without the DELETE FROM gff_features
G_DeleteFeatures_Skip ==
    /\ script = "gff" /\ pc = "deleteFeatures"
    /\ pc' = "deleteRegions"
    /\ UNCHANGED <<script, dir, db0, run, files, i, outcome, exitCode, report, db, tx,
                   serial, client, cur, err, txlog, logged>>
    /\ UNCHANGED <<jsonVars, attrVars>>

\* DELETE FROM gff_features WHERE file_id = $1
G_DeleteFeatures ==
    /\ script = "gff" /\ pc = "deleteFeatures"
    /\ \/ /\ Write([View EXCEPT !.gff_features = NotOfFile(@, cur.fileId)])
          /\ pc' = "deleteRegions"
          /\ err' = err
       \/ /\ Throw("db error")
          /\ UNCHANGED <<db, tx>>
    /\ UNCHANGED <<script, dir, db0, run, files, i, outcome, exitCode, report, serial,
                   client, cur, txlog, logged>>
    /\ UNCHANGED <<jsonVars, attrVars>>

\* DELETE FROM sequence_regions WHERE file_id = $1
G_DeleteRegions ==
    /\ script = "gff" /\ pc = "deleteRegions"
    /\ \/ /\ Write([View EXCEPT !.sequence_regions = NotOfFile(@, cur.fileId)])
          /\ pc' = "updateFile"
          /\ err' = err
       \/ /\ Throw("db error")
          /\ UNCHANGED <<db, tx>>
    /\ UNCHANGED <<script, dir, db0, run, files, i, outcome, exitCode, report, serial,
                   client, cur, txlog, logged>>
    /\ UNCHANGED <<jsonVars, attrVars>>

\* UPDATE gff_files SET original_path = $1, file_size = $2, upload_date = ...
G_UpdateFile ==
    /\ script = "gff" /\ pc = "updateFile"
    /\ \/ /\ Write([View EXCEPT !.gff_files =
                      [k \in 1..Len(@) |->
                          IF @[k].file_id = cur.fileId
                          THEN [@[k] EXCEPT !.original_path = cur.fileName,
                                            !.file_size = cur.fileSize]
                          ELSE @[k]]])
          /\ pc' = "read"
          /\ err' = err
       \/ /\ Throw("db error")
          /\ UNCHANGED <<db, tx>>
    /\ UNCHANGED <<script, dir, db0, run, files, i, outcome, exitCode, report, serial,
                   client, cur, txlog, logged>>
    /\ UNCHANGED <<jsonVars, attrVars>>

\* INSERT INTO gff_files (...) VALUES (...) RETURNING file_id
G_InsertFile ==
    /\ script = "gff" /\ pc = "insertFile"
    /\ \/ LET fileId == serial.file_id + 1
          IN  /\ serial' = [serial EXCEPT !.file_id = fileId]
              /\ Write([View EXCEPT !.gff_files =
                          Append(@, FileRow(fileId, cur.fileName, cur.fileSize))])
              /\ cur' = [cur EXCEPT !.fileId = fileId]
              /\ pc' = "read"
              /\ err' = err
       \/ /\ Throw("db error")
          /\ UNCHANGED <<db, tx, serial, cur>>
    /\ UNCHANGED <<script, dir, db0, run, files, i, outcome, exitCode, report,
                   client, txlog, logged>>
    /\ UNCHANGED <<jsonVars, attrVars>>

\* `for await (const line of rl)`: cur.content holds the lines delivered so far,
\* and the file has a line left while they are fewer than its size
AtLine == Len(cur.content) < cur.fileSize

\* the loop delivers line: lineCount++
Deliver(line) == [cur EXCEPT !.content = Append(@, line), !.lineCount = @ + 1]

\* the read stream fails while the file is being iterated
G_ReadError ==
    /\ script = "gff" /\ pc = "read"
    /\ Throw("EIO")
    /\ UNCHANGED <<script, dir, db0, run, files, i, outcome, exitCode, report, db, tx, serial,
                   client, cur, txlog, logged>>
    /\ UNCHANGED <<jsonVars, attrVars>>

\* an empty line, a comment line without a recognised prefix, a
\* ##sequence-region line with fewer than 4 parts, a data line with fewer than
\* 9 columns: counted in lineCount and skipped
G_SkipLine_Throws ==
    /\ script = "gff" /\ pc = "read" /\ AtLine
    /\ \E line \in LinesOf(cur.fileName) :
         /\ \/ line.k = "blank"
            \/ line.k = "comment" /\ ~IsPragma(line)
            \/ line.k = "region" /\ Len(line.cols) < 4
            \/ line.k = "data" /\ line.n < 9
         /\ cur' = Deliver(line)
         /\ IF line.k = "data" THEN Throw("malformed line")
                                ELSE UNCHANGED <<pc, err>>
    /\ UNCHANGED <<script, dir, db0, run, files, i, outcome, exitCode, report, db, tx,
                   serial, client, txlog, logged>>
    /\ UNCHANGED <<jsonVars, attrVars>>

G_SkipLine ==
    /\ script = "gff" /\ pc = "read" /\ AtLine
    /\ \E line \in LinesOf(cur.fileName) :
         /\ \/ line.k = "blank"
            \/ line.k = "comment" /\ ~IsPragma(line)
            \/ line.k = "region" /\ Len(line.cols) < 4
            \/ line.k = "data" /\ line.n < 9
         /\ cur' = Deliver(line)
    /\ UNCHANGED <<script, dir, db0, run, pc, files, i, outcome, exitCode, report, db, tx,
                   serial, client, err, txlog, logged>>
    /\ UNCHANGED <<jsonVars, attrVars>>

\* UPDATE gff_files SET <column> = $1 WHERE file_id = $2
SetHeader(rows, fileId, column, value) ==
    [k \in 1..Len(rows) |->
        IF rows[k].file_id = fileId THEN [rows[k] EXCEPT ![column] = value]
        ELSE rows[k]]

\* a header pragma: the UPDATE of the branch its prefix selects
G_HeaderLine ==
    /\ script = "gff" /\ pc = "read" /\ AtLine
    /\ \E line \in LinesOf(cur.fileName) :
         /\ IsPragma(line)
         /\ \/ /\ Write([View EXCEPT !.gff_files =
                           SetHeader(@, cur.fileId, HeaderField(line), line.cols[2])])
               /\ cur' = Deliver(line)
               /\ UNCHANGED <<pc, err>>
            \/ /\ Throw("db error")
               /\ cur' = Deliver(line)
               /\ UNCHANGED <<db, tx>>
    /\ UNCHANGED <<script, dir, db0, run, files, i, outcome, exitCode, report, serial,
                   client, txlog, logged>>
    /\ UNCHANGED <<jsonVars, attrVars>>

\* a ##sequence-region line: INSERT INTO sequence_regions
G_RegionLine ==
    /\ script = "gff" /\ pc = "read" /\ AtLine
    /\ \E line \in LinesOf(cur.fileName) :
         /\ line.k = "region" /\ Len(line.cols) >= 4
         /\ \/ /\ Write([View EXCEPT !.sequence_regions =
                           Append(@, RegionRow(cur.fileId, line.cols))])
               /\ cur' = [Deliver(line) EXCEPT !.sequenceRegionCount = @ + 1]
               /\ UNCHANGED <<pc, err>>
            \/ /\ Throw("db error")
               /\ cur' = Deliver(line)
               /\ UNCHANGED <<db, tx>>
    /\ UNCHANGED <<script, dir, db0, run, files, i, outcome, exitCode, report, serial,
                   client, txlog, logged>>
    /\ UNCHANGED <<jsonVars, attrVars>>

\* a ##species line: UPDATE sequence_regions SET species_url of the last region
G_SpeciesLine ==
    /\ script = "gff" /\ pc = "read" /\ AtLine
    /\ \E line \in LinesOf(cur.fileName) :
         /\ line.k = "species"
         /\ \/ /\ Write([View EXCEPT !.sequence_regions =
                           SetSpecies(@, cur.fileId, line.cols[2])])
               /\ cur' = Deliver(line)
               /\ UNCHANGED <<pc, err>>
            \/ /\ Throw("db error")
               /\ cur' = Deliver(line)
               /\ UNCHANGED <<db, tx>>
    /\ UNCHANGED <<script, dir, db0, run, files, i, outcome, exitCode, report, serial,
                   client, txlog, logged>>
    /\ UNCHANGED <<jsonVars, attrVars>>

\* a data line with at least 9 columns: parsed, pushed to batchValues, counted;
\* a full batch is inserted next
G_DataLine ==
    /\ script = "gff" /\ pc = "read" /\ AtLine
    /\ \E line \in LinesOf(cur.fileName) :
         /\ line.k = "data" /\ ~(line.n < 9)
         /\ LET batch == Append(cur.batchValues, FeatureRow(cur.fileId, line))
            IN  /\ cur' = [Deliver(line) EXCEPT !.featureCount = @ + 1,
                                                !.batchValues = batch]
                /\ pc' = IF Len(batch) >= BATCH_SIZE THEN "flush" ELSE "read"
    /\ UNCHANGED <<script, dir, db0, run, files, i, outcome, exitCode, report, db, tx, serial,
                   client, err, txlog, logged>>
    /\ UNCHANGED <<jsonVars, attrVars>>

\* insertFeatureBatch: one INSERT INTO gff_features carrying every row of the batch
insertFeatureBatch(featureBatch) ==
    Write([View EXCEPT !.gff_features = @ \o featureBatch])

\* `if (batchValues.length >= BATCH_SIZE) { await insertFeatureBatch(...);
\* batchValues = []; }`
G_FlushBatch ==
    /\ script = "gff" /\ pc = "flush"
    /\ \/ /\ insertFeatureBatch(cur.batchValues)
          /\ cur' = [cur EXCEPT !.batchValues = <<>>,
                                !.inserts = Append(@, cur.batchValues)]
          /\ pc' = "read"
          /\ err' = err
       \/ /\ Throw("insertFeatureBatch")
          /\ UNCHANGED <<db, tx, cur>>
    /\ UNCHANGED <<script, dir, db0, run, files, i, outcome, exitCode, report, serial,
                   client, txlog, logged>>
    /\ UNCHANGED <<jsonVars, attrVars>>

\* the end of the file: the loop is left and the transaction is committed
G_Eof_NoFinalBatch ==
    /\ script = "gff" /\ pc = "read" /\ ~AtLine
    /\ pc' = "commit"
    /\ UNCHANGED <<script, dir, db0, run, files, i, outcome, exitCode, report, db, tx, serial,
                   client, cur, err, txlog, logged>>
    /\ UNCHANGED <<jsonVars, attrVars>>

\* the end of the file: the loop is left; the remaining rows are inserted next
G_Eof ==
    /\ script = "gff" /\ pc = "read" /\ ~AtLine
    /\ pc' = IF Len(cur.batchValues) > 0 THEN "final" ELSE "commit"
    /\ UNCHANGED <<script, dir, db0, run, files, i, outcome, exitCode, report, db, tx, serial,
                   client, cur, err, txlog, logged>>
    /\ UNCHANGED <<jsonVars, attrVars>>

\* `if (batchValues.length > 0) await insertFeatureBatch(client, batchValues)`
G_FinalBatch ==
    /\ script = "gff" /\ pc = "final"
    /\ \/ /\ insertFeatureBatch(cur.batchValues)
          /\ cur' = [cur EXCEPT !.inserts = Append(@, cur.batchValues)]
          /\ pc' = "commit"
          /\ err' = err
       \/ /\ Throw("insertFeatureBatch")
          /\ UNCHANGED <<db, tx, cur>>
    /\ UNCHANGED <<script, dir, db0, run, files, i, outcome, exitCode, report, serial,
                   client, txlog, logged>>
    /\ UNCHANGED <<jsonVars, attrVars>>

\* COMMIT makes the working copy the committed database
Committed == tx.db

\* await client.query('COMMIT'), the success log, `return fileId`, the finally
\* clause and the return to the loop of processGffFolder
G_Commit ==
    /\ script = "gff" /\ pc = "commit"
    /\ \/ /\ db' = Committed
          /\ tx' = NoTx
          /\ txlog' = Append(txlog, "COMMIT")
          /\ logged' = [file |-> cur.fileName, fileId |-> cur.fileId,
                        lines |-> cur.lineCount, features |-> cur.featureCount,
                        regions |-> cur.sequenceRegionCount,
                        stderr |-> logged.stderr]
          /\ client' = client - 1
          /\ outcome' = Append(outcome, "ok")
          /\ i' = i + 1
          /\ pc' = "loop"
          /\ err' = err
       \/ /\ txlog' = Append(txlog, "COMMIT failed")
          /\ Throw("db error")
          /\ UNCHANGED <<db, tx, logged, client, outcome, i>>
    /\ UNCHANGED <<script, dir, db0, run, files, exitCode, report, serial, cur>>
    /\ UNCHANGED <<jsonVars, attrVars>>

\* ROLLBACK ends the transaction, if one is open, and discards its writes; the
\* statement fails when the connection is gone, and the server has then
\* discarded the transaction as well
Rollback == tx' = NoTx

\* catch (err) { await client.query('ROLLBACK'); console.error(...); throw err; }
\* finally { client.release(); }
\* the catch clause with client.release() after the ROLLBACK statement, in
\* place of the finally clause
G_Catch_ReleaseInCatch ==
    /\ script = "gff" /\ pc = "catch"
    /\ Rollback
    /\ \/ /\ txlog' = Append(txlog, "ROLLBACK")
          /\ ConsoleError(NoName, err.now)
          /\ err' = err
          /\ client' = client - 1
       \/ /\ txlog' = Append(txlog, "ROLLBACK failed")
          /\ err' = [err EXCEPT !.now = "rollback error"]
          /\ logged' = logged
          /\ client' = client
    /\ pc' = "thrown"
    /\ UNCHANGED <<script, dir, db0, run, files, i, outcome, exitCode, report, db, serial,
                   cur>>
    /\ UNCHANGED <<jsonVars, attrVars>>

G_Catch ==
    /\ script = "gff" /\ pc = "catch"
    /\ Rollback
    /\ \/ /\ txlog' = Append(txlog, "ROLLBACK")
          /\ ConsoleError(NoName, err.now)
          /\ err' = err
       \/ /\ txlog' = Append(txlog, "ROLLBACK failed")
          /\ err' = [err EXCEPT !.now = "rollback error"]
          /\ logged' = logged
    /\ client' = client - 1
    /\ pc' = "thrown"
    /\ UNCHANGED <<script, dir, db0, run, files, i, outcome, exitCode, report, db, serial,
                   cur>>
    /\ UNCHANGED <<jsonVars, attrVars>>

(***************************************************************************)
(* GFF importer: processGffFolder.                                         *)
(***************************************************************************)
\* const files = await fs.promises.readdir(folderPath); files.filter(isGffFile);
\* a failure is logged and the finally clause ends the pool: the script completes
G_Readdir ==
    /\ script = "gff" /\ pc = "main"
    /\ \/ /\ files' = SelectSeq(dir, isGffFile)
          /\ i' = 0
          /\ pc' = "loop"
          /\ UNCHANGED <<exitCode, report, err>>
       \/ /\ err' = Err("ENOTDIR")
          /\ exitCode' = 0
          /\ pc' = "exited"
          /\ UNCHANGED <<files, i, report>>
    /\ UNCHANGED <<script, dir, db0, run, outcome, db, tx, serial, client, cur, txlog, logged>>
    /\ UNCHANGED <<jsonVars, attrVars>>

\* the loop head and `await processGffFile(filePath)` up to its first await
G_Loop ==
    /\ script = "gff" /\ pc = "loop" /\ i < Len(files)
    /\ cur' = [NoCur EXCEPT !.fileName = files[i + 1]]
    /\ db0' = db
    /\ txlog' = <<>>
    /\ logged' = NoLog
    /\ err' = NoErr
    /\ pc' = "stat"
    /\ UNCHANGED <<script, dir, run, files, i, outcome, exitCode, report, db, tx, serial,
                   client>>
    /\ UNCHANGED <<jsonVars, attrVars>>

\* catch (err) { console.error(`Failed to process file ${file}:`, err); }
G_FileFailed ==
    /\ script = "gff" /\ pc = "thrown"
    /\ outcome' = Append(outcome, "fail")
    /\ ConsoleError(cur.fileName, err.now)
    /\ err' = [err EXCEPT !.now = "none"]
    /\ i' = i + 1
    /\ pc' = "loop"
    /\ UNCHANGED <<script, dir, db0, run, files, exitCode, report, db, tx, serial, client,
                   cur, txlog>>
    /\ UNCHANGED <<jsonVars, attrVars>>

\* console.log('All files processed.'); finally pool.end(); 'Script completed.'
G_End ==
    /\ script = "gff" /\ pc = "loop" /\ ~(i < Len(files))
    /\ report' = "All files processed."
    /\ exitCode' = 0
    /\ pc' = "exited"
    /\ UNCHANGED <<script, dir, db0, run, files, i, outcome, db, tx, serial, client, cur,
                   err, txlog, logged>>
    /\ UNCHANGED <<jsonVars, attrVars>>

(***************************************************************************)
(* TSV importers: the lines of a TSV file and the rows made of them (the   *)
(* same code in import-tsv.mjs and import_bakta_sqlite.mjs).               *)
(***************************************************************************)
TsvComment == Line("comment", 1, <<"# Software: v1">>, <<>>)
TsvData    == Line("data", 9, <<"c1", "cds", <<"1">>, <<"5">>, "+", "L1", "", "prot">>,
                   <<"x", ",", "y">>)
TsvShort   == Line("data", 3, <<"c1", "cds", <<"1">>>>, <<>>)

TsvData2   == Line("data", 8, <<"c2", "rna", <<"7">>, <<"9">>, "-", "", "g", "">>, <<>>)

TsvLines == {BlankLine, TsvComment, TsvData, TsvShort}

\* the lines a TSV file may hold: the file d.tsv holds data lines only
TsvLinesOf(fileName) ==
    IF fileName.stem = "d" THEN {TsvData, TsvData2, TsvShort} ELSE TsvLines

TsvContents(fileName) ==
    SeqsUpTo(TsvLinesOf(fileName), CHOOSE n \in Sizes(fileName) :
                                      \A m \in Sizes(fileName) : m <= n)

TsvDir == <<Name("a", ".tsv"), Name("b", ".TSV"), Name("n", ".txt")>>

\* file.toLowerCase().includes(filePattern), filePattern = '.tsv'
isTsvFile(filename) == ToLower(filename.ext) = ".tsv"

\* lines.filter(line => !line.startsWith('#') && line.trim() !== '')
DataLinesOf(lines) == SelectSeq(lines, LAMBDA l : l.k # "comment" /\ l.k # "blank")

\* `x || null`: the empty string is falsy
OrNull(x) == IF x = "" THEN NULL ELSE x

\* parts.length > 8 && parts[8] ? parts[8].split(', ').filter(x => x.trim() !== '')
\* : null    (the two-character separator is the one character "," here)
Dbxrefs(line) ==
    IF line.n > 8 /\ line.attrs # <<>>
    THEN [null |-> FALSE,
          list |-> SelectSeq(Split(line.attrs, ","), LAMBDA x : Trim(x) # <<>>)]
    ELSE [null |-> TRUE, list |-> <<>>]

\* the ten values pushed for a line with at least 8 columns
AnnotationRow(genomeId, line) ==
    [genome_id |-> genomeId, sequence_id |-> line.cols[1],
     feature_type |-> line.cols[2], start_position |-> ParseInt(line.cols[3]),
     stop_position |-> ParseInt(line.cols[4]), strand |-> line.cols[5],
     locus_tag |-> OrNull(line.cols[6]), gene |-> OrNull(line.cols[7]),
     product |-> OrNull(line.cols[8]), dbxrefs |-> Dbxrefs(line)]

\* the rows a batch of data lines yields: `if (parts.length < 8) continue;`
RECURSIVE BatchRows(_, _)
BatchRows(genomeId, batch) ==
    IF batch = <<>> THEN <<>>
    ELSE (IF Head(batch).n < 8 THEN <<>>
          ELSE <<AnnotationRow(genomeId, Head(batch))>>)
         \o BatchRows(genomeId, Tail(batch))

\* the INSERT INTO genomes row (sampleId is the file name without extension)
GenomeRow(genomeId, fileName) ==
    [id |-> genomeId, sample_id |-> fileName.stem, file_path |-> fileName]

\* dataLines.slice(start, end) of batch number batchIndex (0-based)
Slice(dataLines, batchIndex, size) ==
    SubSeq(dataLines, batchIndex * size + 1,
           IF batchIndex * size + size < Len(dataLines)
           THEN batchIndex * size + size ELSE Len(dataLines))

\* Math.ceil(dataLines.length / batchSize)
TotalBatches(dataLines, size) == (Len(dataLines) + size - 1) \div size

(***************************************************************************)
(* PostgreSQL TSV importer: processTsvFile and main.                       *)
(***************************************************************************)
\* const client = await pool.connect(): outside the try block
T_Connect ==
    /\ script = "pgtsv" /\ pc = "connect"
    /\ \/ /\ client' = client + 1
          /\ pc' = "begin"
          /\ err' = err
       \/ /\ err' = Err("ECONNREFUSED")
          /\ pc' = "thrown"
          /\ client' = client
    /\ UNCHANGED <<script, dir, db0, run, files, i, outcome, exitCode, report, db, tx,
                   serial, cur, txlog, logged>>
    /\ UNCHANGED <<jsonVars, attrVars>>

\* await client.query('BEGIN')
T_Begin ==
    /\ script = "pgtsv" /\ pc = "begin"
    /\ \/ /\ tx' = [active |-> TRUE, db |-> db]
          /\ txlog' = Append(txlog, "BEGIN")
          /\ pc' = "readFile"
          /\ err' = err
       \/ /\ txlog' = Append(txlog, "BEGIN failed")
          /\ Throw("db error")
          /\ tx' = tx
    /\ UNCHANGED <<script, dir, db0, run, files, i, outcome, exitCode, report, db, serial,
                   client, cur, logged>>
    /\ UNCHANGED <<jsonVars, attrVars>>

\* fs.readFile, split('\n'), the two filters
T_ReadFile ==
    /\ script = "pgtsv" /\ pc = "readFile"
    /\ \/ \E content \in TsvContents(cur.fileName) :
            /\ cur' = [cur EXCEPT !.content = content,
                                  !.dataLines = DataLinesOf(content)]
            /\ pc' = "insertGenome"
            /\ err' = err
       \/ /\ Throw("ENOENT")
          /\ cur' = cur
    /\ UNCHANGED <<script, dir, db0, run, files, i, outcome, exitCode, report, db, tx,
                   serial, client, txlog, logged>>
    /\ UNCHANGED <<jsonVars, attrVars>>

\* INSERT INTO genomes (...) RETURNING id
T_InsertGenome ==
    /\ script = "pgtsv" /\ pc = "insertGenome"
    /\ \/ LET genomeId == serial.genome_id + 1
          IN  /\ serial' = [serial EXCEPT !.genome_id = genomeId]
              /\ Write([View EXCEPT !.genomes =
                          Append(@, GenomeRow(genomeId, cur.fileName))])
              /\ cur' = [cur EXCEPT !.fileId = genomeId, !.batchIndex = 0]
              /\ pc' = "batches"
              /\ err' = err
       \/ /\ Throw("db error")
          /\ UNCHANGED <<db, tx, serial, cur>>
    /\ UNCHANGED <<script, dir, db0, run, files, i, outcome, exitCode, report,
                   client, txlog, logged>>
    /\ UNCHANGED <<jsonVars, attrVars>>

\* one iteration of the batch loop: one INSERT INTO annotations for the rows of
\* the slice, if it yields any
T_Batch ==
    /\ script = "pgtsv" /\ pc = "batches"
    /\ cur.batchIndex < TotalBatches(cur.dataLines, batchSize)
    /\ LET rows == BatchRows(cur.fileId, Slice(cur.dataLines, cur.batchIndex, batchSize))
       IN  \/ /\ Write([View EXCEPT !.annotations = @ \o rows])
              /\ cur' = [cur EXCEPT !.batchIndex = @ + 1,
                                    !.inserts = IF Len(rows) > 0 THEN Append(@, rows)
                                                ELSE @]
              /\ UNCHANGED <<pc, err>>
           \/ /\ Len(rows) > 0
              /\ Throw("db error")
              /\ UNCHANGED <<db, tx, cur>>
    /\ UNCHANGED <<script, dir, db0, run, files, i, outcome, exitCode, report, serial,
                   client, txlog, logged>>
    /\ UNCHANGED <<jsonVars, attrVars>>

\* await client.query('COMMIT'), `Imported ${dataLines.length} annotations`, the
\* finally clause, and `Processed i+1/n files` in main
T_Commit ==
    /\ script = "pgtsv" /\ pc = "batches"
    /\ ~(cur.batchIndex < TotalBatches(cur.dataLines, batchSize))
    /\ \/ /\ db' = Committed
          /\ tx' = NoTx
          /\ txlog' = Append(txlog, "COMMIT")
          /\ logged' = [file |-> cur.fileName, fileId |-> cur.fileId,
                        lines |-> Len(cur.content),
                        features |-> Len(cur.dataLines), regions |-> 0,
                        stderr |-> logged.stderr]
          /\ client' = client - 1
          /\ outcome' = Append(outcome, "ok")
          /\ i' = i + 1
          /\ pc' = "loop"
          /\ err' = err
       \/ /\ txlog' = Append(txlog, "COMMIT failed")
          /\ Throw("db error")
          /\ UNCHANGED <<db, tx, logged, client, outcome, i>>
    /\ UNCHANGED <<script, dir, db0, run, files, exitCode, report, serial, cur>>
    /\ UNCHANGED <<jsonVars, attrVars>>

\* catch (error) { await client.query('ROLLBACK'); console.error(...); throw error; }
\* finally { client.release(); }
T_Catch ==
    /\ script = "pgtsv" /\ pc = "catch"
    /\ Rollback
    /\ \/ /\ txlog' = Append(txlog, "ROLLBACK")
          /\ ConsoleError(cur.fileName, err.now)
          /\ err' = err
       \/ /\ txlog' = Append(txlog, "ROLLBACK failed")
          /\ err' = [err EXCEPT !.now = "rollback error"]
          /\ logged' = logged
    /\ client' = client - 1
    /\ pc' = "thrown"
    /\ UNCHANGED <<script, dir, db0, run, files, i, outcome, exitCode, report, db, serial,
                   cur>>
    /\ UNCHANGED <<jsonVars, attrVars>>

\* main without the `tsvFiles.length === 0` exit
T_Readdir_NoExit ==
    /\ script = "pgtsv" /\ pc = "main"
    /\ files' = SelectSeq(dir, isTsvFile)
    /\ i' = 0
    /\ pc' = "loop"
    /\ UNCHANGED <<script, dir, db0, run, outcome, exitCode, report, db, tx, serial,
                   client, cur, err, txlog, logged>>
    /\ UNCHANGED <<jsonVars, attrVars>>

\* fs.readdir, the filter, and `if (tsvFiles.length === 0) process.exit(1)`; a
\* failure of readdir reaches the catch clause of main: process.exit(1)
T_Readdir ==
    /\ script = "pgtsv" /\ pc = "main"
    /\ \/ LET tsvFiles == SelectSeq(dir, isTsvFile)
          IN  /\ files' = tsvFiles
              /\ i' = 0
              /\ IF Len(tsvFiles) = 0
                 THEN /\ exitCode' = 1
                      /\ report' = "No TSV files found"
                      /\ pc' = "exited"
                 ELSE /\ pc' = "loop"
                      /\ UNCHANGED <<exitCode, report>>
              /\ err' = err
       \/ /\ err' = Err("ENOTDIR")
          /\ exitCode' = 1
          /\ pc' = "exited"
          /\ UNCHANGED <<files, i, report>>
    /\ UNCHANGED <<script, dir, db0, run, outcome, db, tx, serial, client, cur, txlog,
                   logged>>
    /\ UNCHANGED <<jsonVars, attrVars>>

\* the loop head of main and `await processTsvFile(filePath)` up to its first await
T_Loop ==
    /\ script = "pgtsv" /\ pc = "loop" /\ i < Len(files)
    /\ cur' = [NoCur EXCEPT !.fileName = files[i + 1]]
    /\ db0' = db
    /\ txlog' = <<>>
    /\ logged' = NoLog
    /\ err' = NoErr
    /\ pc' = "connect"
    /\ UNCHANGED <<script, dir, run, files, i, outcome, exitCode, report, db, tx,
                   serial, client>>
    /\ UNCHANGED <<jsonVars, attrVars>>

\* processTsvFile threw: catch (error) { console.error('Error:', error);
\* process.exit(1); } of main
T_FileFailed ==
    /\ script = "pgtsv" /\ pc = "thrown"
    /\ outcome' = Append(outcome, "fail")
    /\ ConsoleError(NoName, err.now)
    /\ exitCode' = 1
    /\ pc' = "exited"
    /\ UNCHANGED <<script, dir, db0, run, files, i, report, db, tx, serial, client, cur,
                   err, txlog>>
    /\ UNCHANGED <<jsonVars, attrVars>>

\* console.log('All files processed successfully'); await pool.end();
T_End ==
    /\ script = "pgtsv" /\ pc = "loop" /\ ~(i < Len(files))
    /\ report' = "All files processed successfully"
    /\ exitCode' = 0
    /\ pc' = "exited"
    /\ UNCHANGED <<script, dir, db0, run, files, i, outcome, db, tx, serial, client, cur,
                   err, txlog, logged>>
    /\ UNCHANGED <<jsonVars, attrVars>>

(***************************************************************************)
(* SQLite TSV importer: processTsvFile, initializeDatabase and main.       *)
(* Statements outside a transaction are committed one by one; a failed     *)
(* statement leaves the transaction open.                                  *)
(***************************************************************************)
\* await open({filename: dbPath, ...})
S_Open ==
    /\ script = "sqlite" /\ pc = "main"
    /\ \/ /\ pc' = "initialize"
          /\ UNCHANGED <<exitCode, err>>
       \/ /\ err' = Err("SQLITE_CANTOPEN")
          /\ exitCode' = 1
          /\ pc' = "exited"
    /\ UNCHANGED <<script, dir, db0, run, files, i, outcome, report, db, tx, serial,
                   client, cur, txlog, logged>>
    /\ UNCHANGED <<jsonVars, attrVars>>

\* initializeDatabase: the tables and indexes are created unless genomes exists
S_Initialize ==
    /\ script = "sqlite" /\ pc = "initialize"
    /\ \/ /\ db' = IF ~db.schema THEN [db EXCEPT !.schema = TRUE] ELSE db
          /\ pc' = "readdir"
          /\ UNCHANGED <<exitCode, err>>
       \/ /\ err' = Err("db error")
          /\ exitCode' = 1
          /\ pc' = "exited"
          /\ db' = db
    /\ UNCHANGED <<script, dir, db0, run, files, i, outcome, report, tx, serial,
                   client, cur, txlog, logged>>
    /\ UNCHANGED <<jsonVars, attrVars>>

\* fs.readdir, the filter, and `if (tsvFiles.length === 0) process.exit(1)`
S_Readdir ==
    /\ script = "sqlite" /\ pc = "readdir"
    /\ \/ LET tsvFiles == SelectSeq(dir, isTsvFile)
          IN  /\ files' = tsvFiles
              /\ i' = 0
              /\ IF Len(tsvFiles) = 0
                 THEN /\ exitCode' = 1
                      /\ report' = "No TSV files found"
                      /\ pc' = "exited"
                 ELSE /\ pc' = "loop"
                      /\ UNCHANGED <<exitCode, report>>
              /\ err' = err
       \/ /\ err' = Err("ENOTDIR")
          /\ exitCode' = 1
          /\ pc' = "exited"
          /\ UNCHANGED <<files, i, report>>
    /\ UNCHANGED <<script, dir, db0, run, outcome, db, tx, serial, client, cur, txlog,
                   logged>>
    /\ UNCHANGED <<jsonVars, attrVars>>

\* the loop head of main and processTsvFile up to its first await
S_Loop ==
    /\ script = "sqlite" /\ pc = "loop" /\ i < Len(files)
    /\ cur' = [NoCur EXCEPT !.fileName = files[i + 1]]
    /\ db0' = db
    /\ txlog' = <<>>
    /\ logged' = NoLog
    /\ err' = NoErr
    /\ pc' = "readFile"
    /\ UNCHANGED <<script, dir, run, files, i, outcome, exitCode, report, db, tx,
                   serial, client>>
    /\ UNCHANGED <<jsonVars, attrVars>>

\* fs.readFile, split('\n'), the two filters: before BEGIN TRANSACTION
S_ReadFile ==
    /\ script = "sqlite" /\ pc = "readFile"
    /\ \/ \E content \in TsvContents(cur.fileName) :
            /\ cur' = [cur EXCEPT !.content = content,
                                  !.dataLines = DataLinesOf(content)]
            /\ pc' = "begin"
            /\ err' = err
       \/ /\ Throw("ENOENT")
          /\ cur' = cur
    /\ UNCHANGED <<script, dir, db0, run, files, i, outcome, exitCode, report, db, tx,
                   serial, client, txlog, logged>>
    /\ UNCHANGED <<jsonVars, attrVars>>

\* await db.run('BEGIN TRANSACTION')
S_Begin ==
    /\ script = "sqlite" /\ pc = "begin"
    /\ \/ /\ tx' = [active |-> TRUE, db |-> db]
          /\ txlog' = Append(txlog, "BEGIN")
          /\ pc' = "insertGenome"
          /\ err' = err
       \/ /\ txlog' = Append(txlog, "BEGIN failed")
          /\ Throw("db error")
          /\ tx' = tx
    /\ UNCHANGED <<script, dir, db0, run, files, i, outcome, exitCode, report, db, serial,
                   client, cur, logged>>
    /\ UNCHANGED <<jsonVars, attrVars>>

\* INSERT INTO genomes (...); genomeId = result.lastID
S_InsertGenome ==
    /\ script = "sqlite" /\ pc = "insertGenome"
    /\ \/ LET genomeId == serial.genome_id + 1
          IN  /\ serial' = [serial EXCEPT !.genome_id = genomeId]
              /\ Write([View EXCEPT !.genomes =
                          Append(@, GenomeRow(genomeId, cur.fileName))])
              /\ cur' = [cur EXCEPT !.fileId = genomeId, !.batchIndex = 0]
              /\ pc' = "prepare"
              /\ err' = err
       \/ /\ Throw("db error")
          /\ UNCHANGED <<db, tx, serial, cur>>
    /\ UNCHANGED <<script, dir, db0, run, files, i, outcome, exitCode, report,
                   client, txlog, logged>>
    /\ UNCHANGED <<jsonVars, attrVars>>

\* const insertStmt = await db.prepare(...)
S_Prepare ==
    /\ script = "sqlite" /\ pc = "prepare"
    /\ \/ /\ pc' = "batches"
          /\ err' = err
       \/ Throw("db error")
    /\ UNCHANGED <<script, dir, db0, run, files, i, outcome, exitCode, report, db, tx,
                   serial, client, cur, txlog, logged>>
    /\ UNCHANGED <<jsonVars, attrVars>>

\* one iteration of the batch loop: insertStmt.run for each line of the slice that
\* has at least 8 columns, one row at a time; when a run fails, the rows before
\* it have been written
S_Batch ==
    /\ script = "sqlite" /\ pc = "batches"
    /\ cur.batchIndex < TotalBatches(cur.dataLines, batchSizeSqlite)
    /\ LET rows == BatchRows(cur.fileId,
                             Slice(cur.dataLines, cur.batchIndex, batchSizeSqlite))
       IN  \/ /\ Write([View EXCEPT !.annotations = @ \o rows])
              /\ cur' = [cur EXCEPT !.batchIndex = @ + 1]
              /\ UNCHANGED <<pc, err>>
           \/ \E k \in 1..Len(rows) :
                /\ Write([View EXCEPT !.annotations = @ \o SubSeq(rows, 1, k - 1)])
                /\ Throw("db error")
                /\ cur' = cur
    /\ UNCHANGED <<script, dir, db0, run, files, i, outcome, exitCode, report, serial,
                   client, txlog, logged>>
    /\ UNCHANGED <<jsonVars, attrVars>>

\* insertStmt.finalize(), db.run('COMMIT'), `Imported ${dataLines.length}
\* annotations`, and successCount++, `Processed i+1/n files` in main
S_Commit ==
    /\ script = "sqlite" /\ pc = "batches"
    /\ ~(cur.batchIndex < TotalBatches(cur.dataLines, batchSizeSqlite))
    /\ \/ /\ db' = Committed
          /\ tx' = NoTx
          /\ txlog' = Append(txlog, "COMMIT")
          /\ logged' = [file |-> cur.fileName, fileId |-> cur.fileId,
                        lines |-> Len(cur.content),
                        features |-> Len(cur.dataLines), regions |-> 0,
                        stderr |-> logged.stderr]
          /\ outcome' = Append(outcome, "ok")
          /\ i' = i + 1
          /\ pc' = "loop"
          /\ err' = err
       \/ /\ txlog' = Append(txlog, "COMMIT failed")
          /\ Throw("db error")
          /\ UNCHANGED <<db, tx, logged, outcome, i>>
    /\ UNCHANGED <<script, dir, db0, run, files, exitCode, report, serial, client, cur>>
    /\ UNCHANGED <<jsonVars, attrVars>>

\* catch (error) { await db.run('ROLLBACK'); console.error(...); throw error; }
\* ROLLBACK fails when no transaction is active
S_Catch ==
    /\ script = "sqlite" /\ pc = "catch"
    /\ IF tx.active
       THEN /\ Rollback
            /\ txlog' = Append(txlog, "ROLLBACK")
            /\ ConsoleError(cur.fileName, err.now)
            /\ err' = err
       ELSE /\ tx' = tx
            /\ txlog' = Append(txlog, "ROLLBACK failed")
            /\ err' = [err EXCEPT !.now = "rollback error"]
            /\ logged' = logged
    /\ pc' = "thrown"
    /\ UNCHANGED <<script, dir, db0, run, files, i, outcome, exitCode, report, db, serial,
                   client, cur>>
    /\ UNCHANGED <<jsonVars, attrVars>>

\* catch (error) { errorCount++; } and `Processed i+1/n files`
S_FileFailed ==
    /\ script = "sqlite" /\ pc = "thrown"
    /\ outcome' = Append(outcome, "fail")
    /\ err' = [err EXCEPT !.now = "none"]
    /\ i' = i + 1
    /\ pc' = "loop"
    /\ UNCHANGED <<script, dir, db0, run, files, exitCode, report, db, tx, serial, client,
                   cur, txlog, logged>>
    /\ UNCHANGED <<jsonVars, attrVars>>

\* `Import completed: ${successCount} files successful, ${errorCount} files
\* failed`; await db.close();
S_End ==
    /\ script = "sqlite" /\ pc = "loop" /\ ~(i < Len(files))
    /\ report' = "Import completed"
    /\ exitCode' = 0
    /\ pc' = "exited"
    /\ UNCHANGED <<script, dir, db0, run, files, i, outcome, db, tx, serial, client, cur,
                   err, txlog, logged>>
    /\ UNCHANGED <<jsonVars, attrVars>>

(***************************************************************************)
(* JSON importer: processFile, insertFeature and processDirectory.  The    *)
(* BEGIN / COMMIT / ROLLBACK statements of processFile are commented out   *)
(* in the source, so every INSERT is committed on its own.  Several        *)
(* processFile operations are in flight at once: jf[f] is the position of  *)
(* the operation on files[f].  The tables of this importer are sets of     *)
(* rows; a genome row is keyed by the run and the file that inserted it,   *)
(* in place of its serial id.                                              *)
(***************************************************************************)
\* a table of a schema: its columns, and those of them that are NOT NULL and
\* have no default (an INSERT has to supply them)
Table(columns, required) == [columns |-> columns, required |-> required]

\* the CREATE TABLE statements of the accompanying DDL
Ddl ==
    [genomes  |-> Table({"id", "filename", "filepath", "import_date", "file_metadata"},
                        {"filename", "filepath"}),
     features |-> Table({"id", "genomes_id", "feature_id", "type", "contig", "start",
                         "stop", "strand", "frame", "gene", "product", "nt", "aa",
                         "aa_hexdigest", "start_type", "rbs_motif", "locus"}, {}),
     db_xrefs |-> Table({"id", "feature_id", "db_xref"}, {}),
     genes    |-> Table({"id", "feature_id", "gene"}, {}),
     ups      |-> Table({"id", "feature_id", "uniparc_id", "ncbi_nrp_id",
                         "uniref100_id"}, {}),
     ups_db_xrefs |-> Table({"id", "ups_id", "db_xref"}, {}),
     ips      |-> Table({"id", "feature_id", "uniref100_id", "uniref90_id"}, {}),
     psc      |-> Table({"id", "feature_id", "uniref90_id", "gene", "product",
                         "uniref50_id", "cog_id", "cog_category"}, {}),
     psc_go_ids |-> Table({"id", "psc_id", "go_id"}, {}),
     psc_ec_ids |-> Table({"id", "psc_id", "ec_id"}, {}),
     pscc     |-> Table({"id", "feature_id", "uniref50_id", "product"}, {}),
     pscc_db_xrefs |-> Table({"id", "pscc_id", "db_xref"}, {})]

\* `INSERT INTO table (columns) VALUES (...)`
Insert(table, columns) == [table |-> table, columns |-> columns]

\* the INSERT of processFile
InsertGenomeStmt == Insert("genomes", {"filename"})

\* the first INSERT of insertFeature
InsertFeatureStmt ==
    Insert("features", {"genome_id", "feature_id", "type", "contig", "start", "stop",
                        "strand", "frame", "gene", "product", "start_type",
                        "rbs_motif", "locus"})

\* the INSERTs of insertFeature into the child tables
InsertChildStmts ==
    {Insert("db_xrefs", {"feature_id", "db_xref"}),
     Insert("genes", {"feature_id", "gene"}),
     Insert("ups", {"feature_id", "uniparc_id", "ncbi_nrp_id", "uniref100_id"}),
     Insert("ups_db_xrefs", {"ups_id", "db_xref"}),
     Insert("ips", {"feature_id", "uniref100_id", "uniref90_id"}),
     Insert("psc", {"feature_id", "uniref90_id", "gene", "product", "uniref50_id",
                    "cog_id", "cog_category"}),
     Insert("psc_go_ids", {"psc_id", "go_id"}),
     Insert("psc_ec_ids", {"psc_id", "ec_id"}),
     Insert("pscc", {"feature_id", "uniref50_id", "product"}),
     Insert("pscc_db_xrefs", {"pscc_id", "db_xref"})}

\* a schema every INSERT of the importer fits: each table has the columns the
\* statements name, and none of the others is required
FittingDdl ==
    [t \in DOMAIN Ddl |->
        Table(Ddl[t].columns
                \cup UNION { st.columns : st \in { x \in InsertChildStmts
                                 \cup {InsertGenomeStmt, InsertFeatureStmt} : x.table = t } },
              {})]

\* the tables of the database d: created by the accompanying DDL, or fitting
\* the statements
Tables(d) == IF d.ddl = "accompanying" THEN Ddl ELSE FittingDdl

\* the database d accepts the statement: every column it names exists, and
\* every required column is given a value
Accepted(d, stmt) ==
    /\ stmt.columns \subseteq Tables(d)[stmt.table].columns
    /\ Tables(d)[stmt.table].required \subseteq stmt.columns

JsonStems == <<"a", "b", "c", "d", "e", "f", "g">>

JsonDir(n) == [k \in 1..n |-> Name(JsonStems[k], IF k = 2 THEN ".JSON" ELSE ".json")]

\* file.toLowerCase().endsWith('.json')
isJsonFile(filename) == ToLower(filename.ext) = ".json"

\* st: the position of the operation; k: the features of the file inserted so far
Idle == [st |-> "idle", k |-> 0]

Finished(f) == jf[f].st \in {"done", "failed", "skipped"}

\* the finally clause of processFile: client.release()
Release == client' = client - 1

\* const fileContent = await readFile(filePath, 'utf8'); JSON.parse; the test for
\* a features array.  A failure is logged by the outer catch clause.
J_Read(f) ==
    /\ script = "json" /\ jf[f].st = "reading"
    /\ \/ jf' = [jf EXCEPT ![f].st = "connecting"]  \* a features array
       \/ jf' = [jf EXCEPT ![f].st = "skipped"]     \* no features array: warn, return
       \/ jf' = [jf EXCEPT ![f].st = "failed"]      \* unreadable, or not JSON
    /\ UNCHANGED <<procVars, db, tx, serial, promises, poolEnded, attrVars>>

\* const client = await pool.connect(): rejected once the pool has been ended
J_Connect(f) ==
    /\ script = "json" /\ jf[f].st = "connecting"
    /\ \/ /\ ~poolEnded
          /\ jf' = [jf EXCEPT ![f].st = "insertGenome"]
          /\ client' = client + 1
       \/ /\ jf' = [jf EXCEPT ![f] = [st |-> "failed", k |-> 0]]
          /\ client' = client
    /\ UNCHANGED <<script, dir, db0, run, pc, files, i, outcome, exitCode, report, cur, err,
                   txlog, logged>>
    /\ UNCHANGED <<db, tx, serial, promises, poolEnded, attrVars>>

\* INSERT INTO genomes (filename) VALUES ($1) RETURNING id
J_InsertGenome(f) ==
    /\ script = "json" /\ jf[f].st = "insertGenome"
    /\ \/ /\ Accepted(View, InsertGenomeStmt)
          /\ Write([View EXCEPT !.json_genomes =
                      @ \cup {[run |-> run, filename |-> files[f]]}])
          /\ jf' = [jf EXCEPT ![f].st = "features"]
          /\ client' = client
       \/ /\ jf' = [jf EXCEPT ![f] = [st |-> "failed", k |-> 0]]
          /\ Release
          /\ UNCHANGED <<db, tx>>
    /\ UNCHANGED <<script, dir, db0, run, pc, files, i, outcome, exitCode, report, cur, err,
                   txlog, logged>>
    /\ UNCHANGED <<serial, promises, poolEnded, attrVars>>

\* the rows insertFeature writes for feature number k of the file
FeatureKey(f, k) == [run |-> run, filename |-> files[f], idx |-> k]

\* the most elements the features array of file number f has
FeaturesAtMost(f) == IF f = 1 THEN MaxFeatures ELSE MaxOtherFeatures

\* the features array has another element:
\* await insertFeature(feature, genomeId, client): the features row, then the
\* rows of its child tables; any of the INSERTs may fail, and the inner catch
\* clause logs the error
J_InsertFeature(f) ==
    /\ script = "json" /\ jf[f].st = "features"
    /\ jf[f].k < FeaturesAtMost(f)
    /\ LET key == FeatureKey(f, jf[f].k + 1)
       IN  \/ /\ Accepted(View, InsertFeatureStmt)
              /\ \A st \in InsertChildStmts : Accepted(View, st)
              /\ Write([View EXCEPT !.json_features = @ \cup {key},
                                    !.json_children = @ \cup {key}])
              /\ jf' = [jf EXCEPT ![f].k = @ + 1]
              /\ client' = client
           \/ /\ Accepted(View, InsertFeatureStmt)
              /\ Write([View EXCEPT !.json_features = @ \cup {key}])
              /\ jf' = [jf EXCEPT ![f] = [st |-> "failed", k |-> 0]]
              /\ Release
           \/ /\ jf' = [jf EXCEPT ![f] = [st |-> "failed", k |-> 0]]
              /\ Release
              /\ UNCHANGED <<db, tx>>
    /\ UNCHANGED <<script, dir, db0, run, pc, files, i, outcome, exitCode, report, cur, err,
                   txlog, logged>>
    /\ UNCHANGED <<serial, promises, poolEnded, attrVars>>

\* the features array has no other element: `Successfully imported
\* ${jsonData.features.length} features`, client.release()
J_Success(f) ==
    /\ script = "json" /\ jf[f].st = "features"
    /\ jf' = [jf EXCEPT ![f] = [st |-> "done", k |-> 0]]
    /\ Release
    /\ UNCHANGED <<script, dir, db0, run, pc, files, i, outcome, exitCode, report, cur, err,
                   txlog, logged>>
    /\ UNCHANGED <<db, tx, serial, promises, poolEnded, attrVars>>

\* fs.promises.readdir, the filter, `Found n JSON files to process`; a failure is
\* logged and the finally clause ends the pool
J_Readdir ==
    /\ script = "json" /\ pc = "main"
    /\ \/ LET jsonFiles == SelectSeq(dir, isJsonFile)
          IN  /\ files' = jsonFiles
              /\ jf' = [f \in 1..Len(jsonFiles) |-> Idle]
              /\ i' = 0
              /\ pc' = "loop"
              /\ UNCHANGED <<err, poolEnded>>
       \/ /\ err' = Err("ENOTDIR")
          /\ poolEnded' = TRUE
          /\ pc' = "ended"
          /\ UNCHANGED <<files, jf, i>>
    /\ UNCHANGED <<script, dir, db0, run, outcome, exitCode, report, db, tx, serial, client,
                   cur, txlog, logged, promises, attrVars>>

\* promises.push(processFile(...)): processFile runs up to its first await;
\* `if (promises.length >= 4)` sends the loop to await Promise.all(promises)
J_Push ==
    /\ script = "json" /\ pc = "loop" /\ i < Len(files)
    /\ jf' = [jf EXCEPT ![i + 1].st = "reading"]
    /\ promises' = promises \cup {i + 1}
    /\ i' = i + 1
    /\ pc' = IF Cardinality(promises') >= InFlightCap THEN "awaitAll" ELSE "loop"
    /\ UNCHANGED <<script, dir, db0, run, files, outcome, exitCode, report, db, tx, serial,
                   client, cur, err, txlog, logged, poolEnded, attrVars>>

\* Promise.all(promises) without the await: the loop goes on at once
J_AwaitAll_NotAwaited ==
    /\ script = "json" /\ pc = "awaitAll"
    /\ promises' = {}
    /\ pc' = "loop"
    /\ UNCHANGED <<script, dir, db0, run, files, i, outcome, exitCode, report, db, tx,
                   serial, client, cur, err, txlog, logged, jf, poolEnded, attrVars>>

\* await Promise.all(promises); promises = [];
J_AwaitAll ==
    /\ script = "json" /\ pc = "awaitAll"
    /\ \A f \in promises : Finished(f)
    /\ promises' = {}
    /\ pc' = "loop"
    /\ UNCHANGED <<script, dir, db0, run, files, i, outcome, exitCode, report, db, tx,
                   serial, client, cur, err, txlog, logged, jf, poolEnded, attrVars>>

\* console.log('Finished processing all files'); finally { await pool.end(); }
J_End ==
    /\ script = "json" /\ pc = "loop" /\ ~(i < Len(files))
    /\ report' = "Finished processing all files"
    /\ poolEnded' = TRUE
    /\ pc' = "ended"
    /\ UNCHANGED <<script, dir, db0, run, files, i, outcome, exitCode, db, tx, serial,
                   client, cur, err, txlog, logged, jf, promises, attrVars>>

\* nothing is left to run: the process exits
J_Exit ==
    /\ script = "json" /\ pc = "ended"
    /\ \A f \in 1..Len(files) : jf[f].st = "idle" \/ Finished(f)
    /\ exitCode' = 0
    /\ pc' = "exited"
    /\ UNCHANGED <<script, dir, db0, run, files, i, outcome, report, db, tx, serial,
                   client, cur, err, txlog, logged, jsonVars, attrVars>>

(***************************************************************************)
(* The attribute parser on its own: the ninth column of a data line is     *)
(* parsed as processGffFile parses it.                                     *)
(***************************************************************************)
AttrChars == {"k", "v", "=", ":", ";", SP}

AttrStrings == SeqsUpTo(AttrChars, MaxAttrLen)

A_Parse ==
    /\ script = "gff" /\ pc = "attributes"
    /\ attrOut' = ParseAttributes(attrIn)
    /\ pc' = "parsed"
    /\ UNCHANGED <<script, dir, db0, run, files, i, outcome, exitCode, report, db, tx,
                   serial, client, cur, err, txlog, logged, jsonVars, attrIn,
                   colIn, colOut>>

(***************************************************************************)
(* The columns of a data line on their own: the row processGffFile pushes  *)
(* to batchValues for a line with the given start, end, score, strand and  *)
(* phase columns.                                                          *)
(***************************************************************************)
PosChars == {"0", "1", "9", "-", "x"}

PosStrings == SeqsUpTo(PosChars, MaxPosLen)

NoCols == [start |-> <<>>, end |-> <<>>, score |-> "", strand |-> "", phase |-> ""]

Columns ==
    [start : PosStrings, end : PosStrings, score : {".", "0.5"},
     strand : {".", "+"}, phase : {".", "0"}]

\* the data line with the columns c
DataLineOf(c) ==
    Line("data", 9, <<"chr1", "src", "gene", c.start, c.end, c.score, c.strand,
                      c.phase>>, <<>>)

R_Push ==
    /\ script = "gff" /\ pc = "columns"
    /\ LET row == FeatureRow(0, DataLineOf(colIn))
       IN  colOut' = [start |-> row.start, end |-> row.end, score |-> row.score,
                      strand |-> row.strand, phase |-> row.phase]
    /\ pc' = "pushed"
    /\ UNCHANGED <<script, dir, db0, run, files, i, outcome, exitCode, report, db, tx,
                   serial, client, cur, err, txlog, logged, jsonVars, attrIn, attrOut,
                   colIn>>

(***************************************************************************)
(* The script is run again, against the database the earlier runs left     *)
(* (the sequential importers; the JSON importer is followed for one run).  *)
(***************************************************************************)
Rerun ==
    /\ pc = "exited" /\ run < MaxRuns
    /\ script # "json"
    /\ run' = run + 1
    /\ pc' = "main"
    /\ files' = <<>>
    /\ i' = 0
    /\ outcome' = <<>>
    /\ exitCode' = -1
    /\ report' = "none"
    /\ cur' = NoCur
    /\ err' = NoErr
    /\ txlog' = <<>>
    /\ logged' = NoLog
    /\ tx' = NoTx
    /\ client' = 0
    /\ jf' = <<>>
    /\ promises' = {}
    /\ poolEnded' = FALSE
    /\ db0' = db
    /\ UNCHANGED <<script, dir, db, serial>>
    /\ UNCHANGED attrVars

(***************************************************************************)
(* Specifications.                                                         *)
(***************************************************************************)
Dirs(s) ==
    CASE s = "gff"   -> Folders(GffDir) \cup {<<Name("h", ".gff")>>}
                          \cup Folders(<<Name("s", ".gff"), GffDir[3]>>)
      [] s = "pgtsv" -> Folders(TsvDir)
      [] s = "sqlite" -> Folders(TsvDir)
      [] s = "json"  -> { JsonDir(n) : n \in 0..MaxJsonFiles }
      [] OTHER       -> {<<>>}

\* folders with at most one file the script matches (the JSON importer: none, or
\* as many as it runs at once)
SmallDirs(s) ==
    CASE s = "gff"   -> Folders(<<Name("s", ".gff"), GffDir[3]>>)
      [] s = "pgtsv" -> Folders(<<TsvDir[1], TsvDir[3]>>)
      [] s = "sqlite" -> Folders(<<TsvDir[1], TsvDir[3]>>)
      [] s = "json"  -> {JsonDir(0), JsonDir(InFlightCap)}

Init ==
    /\ script \in {"gff", "pgtsv", "sqlite", "json"}
    /\ dir \in Dirs(script)
    /\ run = 1
    /\ pc = "main"
    /\ files = <<>>
    /\ i = 0
    /\ outcome = <<>>
    /\ exitCode = -1
    /\ report = "none"
    /\ db = EmptyDb
    /\ db0 = EmptyDb
    /\ tx = NoTx
    /\ serial = [file_id |-> 0, genome_id |-> 0]
    /\ client = 0
    /\ cur = NoCur
    /\ err = NoErr
    /\ txlog = <<>>
    /\ logged = NoLog
    /\ jf = <<>>
    /\ promises = {}
    /\ poolEnded = FALSE
    /\ attrIn = <<>>
    /\ attrOut = EmptyObj
    /\ colIn = NoCols
    /\ colOut = NoCols

NextGff ==
    \/ G_Readdir \/ G_Loop \/ G_Stat \/ G_Connect \/ G_Begin \/ G_Lookup
    \/ G_DeleteFeatures \/ G_DeleteRegions \/ G_UpdateFile \/ G_InsertFile
    \/ G_ReadError \/ G_SkipLine \/ G_HeaderLine \/ G_RegionLine \/ G_SpeciesLine \/ G_DataLine
    \/ G_FlushBatch \/ G_Eof \/ G_FinalBatch \/ G_Commit \/ G_Catch
    \/ G_FileFailed \/ G_End \/ Rerun

InitGff == Init /\ script = "gff"

SpecGff == InitGff /\ [][NextGff]_vars

NextTsv ==
    \/ T_Readdir \/ T_Loop \/ T_Connect \/ T_Begin \/ T_ReadFile \/ T_InsertGenome
    \/ T_Batch \/ T_Commit \/ T_Catch \/ T_FileFailed \/ T_End \/ Rerun

InitTsv == Init /\ script = "pgtsv"

SpecTsv == InitTsv /\ [][NextTsv]_vars

NextSqlite ==
    \/ S_Open \/ S_Initialize \/ S_Readdir \/ S_Loop \/ S_ReadFile \/ S_Begin
    \/ S_InsertGenome \/ S_Prepare \/ S_Batch \/ S_Commit \/ S_Catch
    \/ S_FileFailed \/ S_End \/ Rerun

InitSqlite == Init /\ script = "sqlite"

SpecSqlite == InitSqlite /\ [][NextSqlite]_vars

\* the GFF importer run on a folder that holds two GFF files, each with fewer
\* lines than a batch of features has rows (no batch fills before the end of
\* the file) and no line that is skipped; the script is run twice
InitGffTwo ==
    /\ script = "gff"
    /\ dir = <<Name("p", ".gff"), Name("q", ".gff")>>
    /\ run = MaxRuns - 1
    /\ pc = "main"
    /\ files = <<>>
    /\ i = 0
    /\ outcome = <<>>
    /\ exitCode = -1
    /\ report = "none"
    /\ db = EmptyDb
    /\ db0 = EmptyDb
    /\ tx = NoTx
    /\ serial = [file_id |-> 0, genome_id |-> 0]
    /\ client = 0
    /\ cur = NoCur
    /\ err = NoErr
    /\ txlog = <<>>
    /\ logged = NoLog
    /\ jf = <<>>
    /\ promises = {}
    /\ poolEnded = FALSE
    /\ attrIn = <<>>
    /\ attrOut = EmptyObj
    /\ colIn = NoCols
    /\ colOut = NoCols

NextGffTwo ==
    \/ G_Readdir \/ G_Loop \/ G_Stat \/ G_Connect \/ G_Begin \/ G_Lookup
    \/ G_DeleteFeatures \/ G_DeleteRegions \/ G_UpdateFile \/ G_InsertFile
    \/ G_ReadError \/ G_HeaderLine \/ G_RegionLine \/ G_SpeciesLine
    \/ G_DataLine \/ G_Eof \/ G_FinalBatch \/ G_Commit \/ G_Catch
    \/ G_FileFailed \/ G_End \/ Rerun

SpecGffTwo == InitGffTwo /\ [][NextGffTwo]_vars

NextJson ==
    \/ J_Readdir \/ J_Push \/ J_AwaitAll \/ J_End \/ J_Exit
    \/ \E f \in 1..Len(files) : J_Read(f)
    \/ \E f \in 1..Len(files) : J_Connect(f)
    \/ \E f \in 1..Len(files) : J_InsertGenome(f)
    \/ \E f \in 1..Len(files) : J_InsertFeature(f)
    \/ \E f \in 1..Len(files) : J_Success(f)

InitJson == Init /\ script = "json"

SpecJson == InitJson /\ [][NextJson]_vars

\* the JSON importer run against a database created by the accompanying DDL,
\* or against one whose tables fit its statements
InitJsonDdl ==
    /\ script = "json"
    /\ dir \in Dirs("json")
    /\ run = 1
    /\ pc = "main"
    /\ files = <<>>
    /\ i = 0
    /\ outcome = <<>>
    /\ exitCode = -1
    /\ report = "none"
    /\ db \in { [EmptyDb EXCEPT !.ddl = d] : d \in {"accompanying", "fitting"} }
    /\ db0 = db
    /\ tx = NoTx
    /\ serial = [file_id |-> 0, genome_id |-> 0]
    /\ client = 0
    /\ cur = NoCur
    /\ err = NoErr
    /\ txlog = <<>>
    /\ logged = NoLog
    /\ jf = <<>>
    /\ promises = {}
    /\ poolEnded = FALSE
    /\ attrIn = <<>>
    /\ attrOut = EmptyObj
    /\ colIn = NoCols
    /\ colOut = NoCols

SpecJsonDdl == InitJsonDdl /\ [][NextJson]_vars

InitAttr ==
    /\ script = "gff"
    /\ dir = <<>>
    /\ run = 1
    /\ pc = "attributes"
    /\ files = <<>>
    /\ i = 0
    /\ outcome = <<>>
    /\ exitCode = -1
    /\ report = "none"
    /\ db = EmptyDb
    /\ db0 = EmptyDb
    /\ tx = NoTx
    /\ serial = [file_id |-> 0, genome_id |-> 0]
    /\ client = 0
    /\ cur = NoCur
    /\ err = NoErr
    /\ txlog = <<>>
    /\ logged = NoLog
    /\ jf = <<>>
    /\ promises = {}
    /\ poolEnded = FALSE
    /\ attrIn \in AttrStrings
    /\ attrOut = EmptyObj
    /\ colIn = NoCols
    /\ colOut = NoCols

SpecAttr == InitAttr /\ [][A_Parse]_vars

InitRow ==
    /\ script = "gff"
    /\ dir = <<>>
    /\ run = 1
    /\ pc = "columns"
    /\ files = <<>>
    /\ i = 0
    /\ outcome = <<>>
    /\ exitCode = -1
    /\ report = "none"
    /\ db = EmptyDb
    /\ db0 = EmptyDb
    /\ tx = NoTx
    /\ serial = [file_id |-> 0, genome_id |-> 0]
    /\ client = 0
    /\ cur = NoCur
    /\ err = NoErr
    /\ txlog = <<>>
    /\ logged = NoLog
    /\ jf = <<>>
    /\ promises = {}
    /\ poolEnded = FALSE
    /\ attrIn = <<>>
    /\ attrOut = EmptyObj
    /\ colIn \in Columns
    /\ colOut = NoCols

SpecRow == InitRow /\ [][R_Push]_vars

\* the first import of a file of data lines by the GFF importer or by one of
\* the TSV importers, into an empty database
InitBatch ==
    /\ script \in {"gff", "pgtsv", "sqlite"}
    /\ dir = <<Name("d", IF script = "gff" THEN ".gff" ELSE ".tsv")>>
    /\ run = MaxRuns
    /\ pc = "main"
    /\ files = <<>>
    /\ i = 0
    /\ outcome = <<>>
    /\ exitCode = -1
    /\ report = "none"
    /\ db = EmptyDb
    /\ db0 = EmptyDb
    /\ tx = NoTx
    /\ serial = [file_id |-> 0, genome_id |-> 0]
    /\ client = 0
    /\ cur = NoCur
    /\ err = NoErr
    /\ txlog = <<>>
    /\ logged = NoLog
    /\ jf = <<>>
    /\ promises = {}
    /\ poolEnded = FALSE
    /\ attrIn = <<>>
    /\ attrOut = EmptyObj
    /\ colIn = NoCols
    /\ colOut = NoCols

NextBatch ==
    \/ G_Readdir \/ G_Loop \/ G_Stat \/ G_Connect \/ G_Begin \/ G_Lookup \/ G_InsertFile
    \/ G_ReadError \/ G_SkipLine \/ G_DataLine \/ G_FlushBatch \/ G_Eof
    \/ G_FinalBatch \/ G_Commit \/ G_Catch \/ G_FileFailed \/ G_End
    \/ T_Readdir \/ T_Loop \/ T_Connect \/ T_Begin \/ T_ReadFile \/ T_InsertGenome
    \/ T_Batch \/ T_Commit \/ T_Catch \/ T_FileFailed \/ T_End
    \/ S_Open \/ S_Initialize \/ S_Readdir \/ S_Loop \/ S_ReadFile \/ S_Begin
    \/ S_InsertGenome \/ S_Prepare \/ S_Batch \/ S_Commit \/ S_Catch
    \/ S_FileFailed \/ S_End

SpecBatch == InitBatch /\ [][NextBatch]_vars

Next == NextGff \/ NextTsv \/ NextSqlite \/ NextJson

Spec == Init /\ [][Next]_vars

\* every script, run on a small folder
InitSmall == Init /\ dir \in SmallDirs(script)

SpecSmall == InitSmall /\ [][Next]_vars

\* the GFF importer run on a folder that holds one GFF file
InitGffOne == InitGff /\ dir = <<Name("a", ".gff")>>

SpecGffOne == InitGffOne /\ [][NextGff]_vars

\* the GFF importer run on a folder that holds one GFF file with header pragmas
InitGffHead == InitGff /\ dir = <<Name("h", ".gff")>>

SpecGffHead == InitGffHead /\ [][NextGff]_vars

(***************************************************************************)
(* Properties.                                                             *)
(***************************************************************************)
\* the import of cur.fileName has just succeeded (sequential importers)
LastOk == /\ pc \in {"loop", "exited"}
          /\ outcome # <<>>
          /\ Last(outcome) = "ok"

\* the import of cur.fileName is in progress, or has just failed
InImport == pc \notin {"main", "initialize", "readdir", "loop", "exited",
                       "attributes", "parsed", "columns", "pushed"}

\* the rows a JSON processFile operation has written
JsonRowsOf(f) ==
    { r \in db.json_genomes : r.run = run /\ r.filename = files[f] }
    \cup { r \in db.json_features \cup db.json_children :
             r.run = run /\ r.filename = files[f] }

\* C1: in every importer, a failed import of a file leaves no row it wrote in
\* the database: once the failure has surfaced, the committed database of a
\* sequential importer is what it was when the import began, and no row of a
\* failed processFile operation of the JSON importer exists.
C1_FailedImportLeavesNoRow ==
    /\ script \in {"gff", "pgtsv", "sqlite"} /\ pc = "thrown" => db = db0
    /\ script = "json" =>
         \A f \in DOMAIN jf : jf[f].st = "failed" => JsonRowsOf(f) = {}

\* an insertFeatureBatch call failed while cur.fileName was imported, and the
\* failure has left processGffFile
BatchFailed == /\ script = "gff" /\ pc = "thrown"
               /\ err.first = "insertFeatureBatch"

ExpectedFeatures(fileId, content) ==
    LET sel == SelectSeq(content, LAMBDA l : l.k = "data" /\ l.n >= 9)
    IN  [j \in 1..Len(sel) |-> FeatureRow(fileId, sel[j])]

\* the sequence-region rows the content of a GFF file yields: one per
\* ##sequence-region line, a ##species line annotating the region before it
RECURSIVE ExpectedRegions(_, _, _)
ExpectedRegions(fileId, content, acc) ==
    IF content = <<>> THEN acc
    ELSE LET l == Head(content)
         IN  ExpectedRegions(fileId, Tail(content),
                CASE l.k = "region" /\ Len(l.cols) >= 4 ->
                         Append(acc, RegionRow(fileId, l.cols))
                  [] l.k = "species" /\ acc # <<>> ->
                         [acc EXCEPT ![Len(acc)].species_url = l.cols[2]]
                  [] OTHER -> acc)

\* C3: after a successful GFF import the gff_features and sequence_regions
\* rows of the file's file_id are exactly the rows of the content just
\* imported (whatever rows an earlier import of the filename had left, so
\* that importing a file twice leaves what importing it once leaves), and
\* until the commit, and after a rollback, both tables are as they were when
\* the import began.
C3_ReimportReplaces ==
    script = "gff" =>
        /\ LastOk =>
             /\ OfFile(db.gff_features, cur.fileId)
                  = ExpectedFeatures(cur.fileId, cur.content)
             /\ OfFile(db.sequence_regions, cur.fileId)
                  = ExpectedRegions(cur.fileId, cur.content, <<>>)
        /\ InImport =>
             /\ db.gff_features = db0.gff_features
             /\ db.sequence_regions = db0.sequence_regions

C3_Witness ==
    /\ script = "gff" /\ LastOk /\ run > 1
    /\ OfFile(db0.gff_features, cur.fileId) # <<>>
    /\ OfFile(db0.sequence_regions, cur.fileId) # <<>>
    /\ OfFile(db.gff_features, cur.fileId) # OfFile(db0.gff_features, cur.fileId)
    /\ OfFile(db.gff_features, cur.fileId) # <<>>

\* C4: in every folder-level driver, a run that matched files ends with every
\* matched file processed and its end-of-run report written, whatever imports
\* failed.
C4_EveryFileProcessed ==
    (pc = "exited" /\ Len(files) > 0) =>
        /\ report # "none"
        /\ script \in {"gff", "pgtsv", "sqlite"} => Len(outcome) = Len(files)
        /\ script = "json" => \A f \in DOMAIN jf : jf[f].st # "idle"

\* the processFile operations started and not yet completed
InFlight == { f \in DOMAIN jf : jf[f].st # "idle" /\ ~Finished(f) }

\* C5: in processDirectory, at most 4 processFile operations are in flight at
\* any moment.
C5_AtMostFourInFlight == Cardinality(InFlight) <= 4

C5_Witness ==
    /\ script = "json"
    /\ Cardinality(InFlight) = 4
    /\ \E f \in DOMAIN jf : jf[f].st = "idle"

\* the lines of a file that are non-comment, non-blank and have at least 8
\* tab-separated columns
CountedLines(content) ==
    Count(content, LAMBDA l : l.k = "data" /\ l.n >= 8)

\* the rows the committed database holds for the file just imported
ImportedRows ==
    IF script = "gff" THEN OfFile(db.gff_features, cur.fileId)
    ELSE SelectSeq(db.annotations, LAMBDA r : r.genome_id = cur.fileId)

\* C6: for every file successfully processed by the TSV and GFF importers, the
\* count written to the log equals the number of non-comment, non-blank lines
\* with at least 8 columns, and equals the number of rows inserted for it.
C6_LoggedCountIsRowCount ==
    (script \in {"gff", "pgtsv", "sqlite"} /\ LastOk) =>
        /\ logged.features = CountedLines(cur.content)
        /\ logged.features = Len(ImportedRows)

\* the statements of the transaction log of the current file
Issued(stmt) == \E k \in 1..Len(txlog) : txlog[k] = stmt

\* terminal state `done`: COMMIT was issued last and took effect, no ROLLBACK
Done == /\ LastOk
        /\ txlog # <<>> /\ txlog[1] = "BEGIN" /\ Last(txlog) = "COMMIT"
        /\ ~Issued("ROLLBACK") /\ ~Issued("ROLLBACK failed")

\* terminal state `failed`: ROLLBACK was issued, nothing was committed and
\* the error has left the file-level driver
Failed == /\ pc = "thrown"
          /\ Issued("ROLLBACK") \/ Issued("ROLLBACK failed")
          /\ ~Issued("COMMIT")
          /\ db = db0
          /\ err.now # "none"

\* the file records the database d holds for the filename being imported
FileRecords(d) ==
    IF script = "gff"
    THEN SelectSeq(d.gff_files, LAMBDA r : r.filename = cur.fileName)
    ELSE SelectSeq(d.genomes, LAMBDA r : r.sample_id = cur.fileName.stem)

\* C7: every run of processGffFile and of the PostgreSQL
\* processTsvFile ends either done or failed (with ROLLBACK issued); the file
\* record is looked up by filename, updated if present and inserted otherwise,
\* so a successful import leaves one record of the filename; and the
\* committed database changes only at COMMIT.
C7_DoneOrRolledBack ==
    script \in {"gff", "pgtsv"} =>
        /\ pc = "thrown" => Failed
        /\ (pc = "loop" /\ LastOk) => Done
        /\ LastOk => Len(FileRecords(db)) = 1
        /\ InImport => db = db0

\* the run failed before it held a database client: fs.stat or pool.connect
\* failed, no statement was issued
FailedBeforeBegin ==
    /\ pc = "thrown"
    /\ txlog = <<>>
    /\ err.first \in {"ENOENT", "ECONNREFUSED"}
    /\ err.now = err.first
    /\ db = db0

\* What the file-level drivers do guarantee: a run ends done, or failed with
\* ROLLBACK issued, or, when fs.stat or pool.connect fails, failed with no
\* statement issued at all; only processGffFile looks the file record up by
\* filename (a successful import leaves one gff_files row of the filename,
\* the old file_id kept on the update path), while processTsvFile always
\* inserts a new genomes row; the committed database changes only at COMMIT.
C7_DoneOrFailed ==
    script \in {"gff", "pgtsv"} =>
        /\ pc = "thrown" => (Failed /\ txlog # <<>>) \/ FailedBeforeBegin
        /\ (pc = "loop" /\ LastOk) => Done
        /\ (script = "gff" /\ LastOk) =>
             /\ Len(FileRecords(db)) = 1
             /\ FileRecords(db)[1].file_id = cur.fileId
             /\ FileRecords(db0) # <<>> =>
                    FileRecords(db0)[1].file_id = cur.fileId
        /\ (script = "pgtsv" /\ LastOk) =>
             Len(FileRecords(db)) = Len(FileRecords(db0)) + 1
        /\ InImport => db = db0

\* the script has run to its end on a folder that holds no file it matches
NoMatch ==
    /\ pc = "exited" /\ err = NoErr /\ files = <<>>
    /\ SelectSeq(dir, LAMBDA n : CASE script = "gff" -> isGffFile(n)
                                   [] script = "json" -> isJsonFile(n)
                                   [] OTHER -> isTsvFile(n)) = <<>>

\* C8 (as stated): on a folder with no matching file the TSV importers and the
\* GFF importer exit with code 1 and leave the database untouched (no row, no
\* table created); the JSON importer reports its completion and leaves the
\* database untouched.
C8_NoMatchExitsOne ==
    NoMatch =>
        /\ script \in {"gff", "pgtsv", "sqlite"} => exitCode = 1 /\ db = db0
        /\ script = "json" =>
             report = "Finished processing all files" /\ db = db0

\* C8 (amended): on a folder with no matching file the PostgreSQL TSV
\* importer exits with code 1 and leaves the database untouched; the SQLite
\* TSV importer exits with code 1 having written no row, but having created
\* its tables if they were absent; the GFF importer reports 'All files
\* processed.', exits with code 0 and leaves the database untouched; the JSON
\* importer reports its completion and leaves the database untouched.
C8_NoMatchNoRow ==
    NoMatch =>
        /\ script = "pgtsv" => exitCode = 1 /\ db = db0
        /\ script = "sqlite" =>
             /\ exitCode = 1
             /\ db = [db0 EXCEPT !.schema = TRUE]
        /\ script = "gff" =>
             /\ exitCode = 0 /\ report = "All files processed."
             /\ db = db0
        /\ script = "json" =>
             /\ report = "Finished processing all files" /\ exitCode = 0
             /\ db = db0

C8_Witness ==
    /\ NoMatch /\ script = "sqlite"
    /\ dir # <<>>
    /\ db.schema /\ ~db0.schema

\* the pairs of the attribute string
Pairs(attributesStr) == Split(attributesStr, ";")

FirstIndex(s, ch) == CHOOSE k \in 1..Len(s) : s[k] = ch /\ \A j \in 1..(k - 1) : s[j] # ch

\* the separator of a pair: '=' when the pair has one, else ':'
Separator(pair) == IF Includes(pair, "=") THEN "=" ELSE ":"

\* the trimmed text before the first separator of a pair that has one
PairKey(pair) ==
    Trim(SubSeq(pair, 1, FirstIndex(pair, Separator(pair)) - 1))

\* the trimmed whole text after the first separator of a pair that has one
PairValue(pair) ==
    Trim(SubSeq(pair, FirstIndex(pair, Separator(pair)) + 1, Len(pair)))

\* a pair `key=value`, or without '=' `key:value`, with a key and a value
WellFormed(pair) ==
    /\ Includes(pair, "=") \/ Count(pair, LAMBDA ch : ch = ":") = 1
    /\ PairKey(pair) # <<>>
    /\ PairValue(pair) # <<>>

\* C9: the attribute parser maps every pair key=value (or, without '=',
\* key:value) to key -> value, both trimmed, the value being the whole text
\* after the first '='; of two pairs with the same key the later wins.
C9_PairsMapped ==
    pc = "parsed" =>
        LET pairs == Pairs(attrIn)
        IN  \A j \in 1..Len(pairs) :
              ( /\ WellFormed(pairs[j])
                /\ \A m \in (j + 1)..Len(pairs) :
                      ~(\E k \in 1..Len(pairs[m]) : pairs[m][k] \in {"=", ":"})
                      \/ PairKey(pairs[m]) # PairKey(pairs[j]) )
              => /\ PairKey(pairs[j]) \in DOMAIN attrOut
                 /\ attrOut[PairKey(pairs[j])] = PairValue(pairs[j])

\* C10: the mapping the attribute parser returns never contains an empty key
\* or an empty value: a pair with a missing key or a missing value, and a
\* pair with neither separator, contributes no entry.
C10_NoEmptyKeyOrValue ==
    pc = "parsed" =>
        \A key \in DOMAIN attrOut : key # <<>> /\ attrOut[key] # <<>>

\* the header pragma a line is, by its exact first part, and the column of
\* gff_files that belongs to it
ClaimedField(line) ==
    LET first == line.cols[1]
    IN  CASE first = <<"##gff-version">> -> "version"
          [] first = <<"#!genome-build">> -> "genome_build"
          [] first = <<"#!genome-build", "-accession">> -> "genome_build_accession"
          [] first = <<"#!annotation", "-date">> -> "annotation_date"
          [] first = <<"#!annotation", "-source">> -> "annotation_source"
          [] OTHER -> "none"

\* the loop of processGffFile has taken a comment line and gone on to the next
CommentLineTaken ==
    /\ script = "gff" /\ pc = "read" /\ pc' = "read"
    /\ Len(cur'.content) = Len(cur.content) + 1
    /\ Last(cur'.content).k = "comment"

\* C11: each recognised header pragma sets its own column of the file record
\* to the value the line carries and leaves every other column as it was; a
\* comment line that is no recognised pragma changes nothing.
C11_PragmaSetsOwnField ==
    [][ CommentLineTaken =>
          LET line   == Last(cur'.content)
              column == ClaimedField(line)
              before == OfFile(View.gff_files, cur.fileId)
              after  == OfFile(View'.gff_files, cur.fileId)
          IN  /\ NotOfFile(View'.gff_files, cur.fileId)
                   = NotOfFile(View.gff_files, cur.fileId)
              /\ after = IF column = "none" THEN before
                         ELSE [before EXCEPT ![1][column] = line.cols[2]] ]_vars

RECURSIVE ApplyHeaders(_, _)
\* the file record after the header pragmas of content, as the code reads
\* them, have been applied to row in file order
ApplyHeaders(row, content) ==
    IF content = <<>> THEN row
    ELSE ApplyHeaders(IF IsPragma(Head(content))
                      THEN [row EXCEPT ![HeaderField(Head(content))] = Head(content).cols[2]]
                      ELSE row,
                      Tail(content))

\* C12: after a successful re-import of a filename the file record is what
\* the newly imported file alone yields: path, size and every header column,
\* a column whose pragma the new file lacks being null.
C12_RecordRebuiltOnReimport ==
    (script = "gff" /\ LastOk /\ FileRecords(db0) # <<>>) =>
        FileRecords(db)
          = << ApplyHeaders(FileRow(cur.fileId, cur.fileName, cur.fileSize),
                            cur.content) >>


(***************************************************************************)
(* Exit code and standard error.                                           *)
(***************************************************************************)
\* the import of some file of this run has failed and main has handled it
SomeFileFailed == \E k \in 1..Len(outcome) : outcome[k] = "fail"

\* C13: in every importer a run in which the folder was read and the import
\* of one or more files failed ends with exit code 0: the exit code is
\* non-zero only for top-level conditions.
C13_FileFailureExitsZero ==
    (pc = "exited" /\ SomeFileFailed) => exitCode = 0

\* the messages on standard error that name the current file and carry the
\* error that made its import fail
Reported == { k \in 1..Len(logged.stderr) :
                /\ logged.stderr[k].file = cur.fileName
                /\ logged.stderr[k].error = err.first }

\* C14: in every importer, once the failed import of a file has been handled
\* by the caller of the import, standard error holds a message that names the
\* file and carries the original error.
C14_FailureReported ==
    (pc \in {"loop", "exited"} /\ outcome # <<>> /\ Last(outcome) = "fail")
        => Reported # {}


(***************************************************************************)
(* Columns of a feature row.                                               *)
(***************************************************************************)
\* the data lines of the content that have all nine columns
FullDataLines(content) == SelectSeq(content, LAMBDA l : l.k = "data" /\ l.n >= 9)

\* score, strand and phase: the sixth to eighth column of a data line
MarkOf(row, c) == CASE c = 6 -> row.score [] c = 7 -> row.strand [] c = 8 -> row.phase

\* C15: after a successful GFF import, the score, strand and phase of the
\* feature row of every data line are null where the column of the line is
\* "." and the string of the column otherwise.
C15_DotIsNull ==
    (script = "gff" /\ LastOk) =>
        LET sel  == FullDataLines(cur.content)
            rows == OfFile(db.gff_features, cur.fileId)
        IN  /\ Len(rows) = Len(sel)
            /\ \A j \in 1..Len(sel) : \A c \in {6, 7, 8} :
                 MarkOf(rows[j], c)
                   = IF sel[j].cols[c] = "." THEN NULL ELSE sel[j].cols[c]

\* a file with a "." and another value in each of the three columns has been
\* imported
C15_Witness ==
    /\ script = "gff" /\ LastOk
    /\ LET rows == OfFile(db.gff_features, cur.fileId)
       IN  /\ Len(rows) = 2
           /\ \A c \in {6, 7, 8} :
                { MarkOf(rows[j], c) : j \in 1..2 } \in { {NULL, v} : v \in {"0.5", "+", "0"} }

\* C16: the start and end of the row pushed for a data line are the integer the
\* column parses to, and 1 exactly when the column does not parse.
C16_PositionKept ==
    pc = "pushed" =>
        /\ colOut.start = (IF ParseInt(colIn.start).nan THEN 1
                           ELSE ParseInt(colIn.start).v)
        /\ colOut.end = (IF ParseInt(colIn.end).nan THEN 1
                         ELSE ParseInt(colIn.end).v)


(***************************************************************************)
(* Batching of the multi-row inserts.                                      *)
(***************************************************************************)
\* the rows of a sequence of inserts, in issue order
RECURSIVE Flatten(_)
Flatten(batches) ==
    IF batches = <<>> THEN <<>> ELSE Head(batches) \o Flatten(Tail(batches))

\* the batch size of the script
BatchSizeOf == IF script = "gff" THEN BATCH_SIZE ELSE batchSize

\* the parsed rows of the lines of the current file read so far (GFF), of the
\* lines of the slices taken so far (TSV)
ParsedRows ==
    IF script = "gff"
    THEN ExpectedFeatures(cur.fileId, cur.content)
    ELSE BatchRows(cur.fileId,
                   SubSeq(cur.dataLines, 1,
                          IF cur.batchIndex * batchSize < Len(cur.dataLines)
                          THEN cur.batchIndex * batchSize ELSE Len(cur.dataLines)))

\* C17: in the GFF and PostgreSQL TSV importers the rows of the inserts issued
\* for a file, in issue order, followed while the file is read by the pending
\* batch, are the parsed rows so far; after a successful import they are all
\* the parsed rows of the file; every insert issued carries between 1 and B
\* rows, and the pending batch holds at most B rows.
C17_BatchesCarryParsedRows ==
    script \in {"gff", "pgtsv"} =>
        /\ \A k \in 1..Len(cur.inserts) :
             Len(cur.inserts[k]) >= 1 /\ Len(cur.inserts[k]) <= BatchSizeOf
        /\ Len(cur.batchValues) <= BATCH_SIZE
        /\ (script = "gff" /\ pc \in {"read", "flush", "final"})
             => Flatten(cur.inserts) \o cur.batchValues = ParsedRows
        /\ (script = "pgtsv" /\ pc = "batches")
             => Flatten(cur.inserts) = ParsedRows
        /\ LastOk =>
             /\ Flatten(cur.inserts) = ParsedRows
             /\ Flatten(cur.inserts)
                  = (IF script = "gff" THEN OfFile(db.gff_features, cur.fileId)
                     ELSE SelectSeq(db.annotations,
                                    LAMBDA r : r.genome_id = cur.fileId))
             /\ script = "pgtsv" => ParsedRows = BatchRows(cur.fileId, cur.dataLines)

\* a file was imported with two full inserts and a last, shorter one
C17_Witness ==
    /\ LastOk
    /\ Len(cur.inserts) = 3
    /\ Len(cur.inserts[1]) = BatchSizeOf
    /\ Len(cur.inserts[3]) < BatchSizeOf


(***************************************************************************)
(* Malformed data lines.                                                   *)
(***************************************************************************)
\* a data line with too few tab-separated columns for the script
Malformed(l) == l.k = "data" /\ l.n < (IF script = "gff" THEN 9 ELSE 8)

\* the rows of the well-formed data lines of the content, in file order
WellFormedRows(fileId, content) ==
    LET sel == SelectSeq(content, LAMBDA l : l.k = "data" /\ ~Malformed(l))
    IN  [j \in 1..Len(sel) |->
           IF script = "gff" THEN FeatureRow(fileId, sel[j])
           ELSE AnnotationRow(fileId, sel[j])]

\* the lines the step of the import in progress handles, when all of them are
\* malformed: the line the GFF importer has just read, the slice a TSV
\* importer is about to insert
MalformedStep ==
    IF script = "gff"
    THEN /\ pc = "read"
         /\ Len(cur'.content) = Len(cur.content) + 1
         /\ Malformed(Last(cur'.content))
    ELSE /\ pc = "batches"
         /\ LET size == IF script = "pgtsv" THEN batchSize ELSE batchSizeSqlite
            IN  /\ cur.batchIndex < TotalBatches(cur.dataLines, size)
                /\ LET slice == Slice(cur.dataLines, cur.batchIndex, size)
                   IN  \A j \in 1..Len(slice) : Malformed(slice[j])

\* C18: in the TSV and GFF importers the step that handles malformed data
\* lines writes no row, raises no error and goes on with the file, and after
\* a successful import the rows of the file are the rows of its well-formed
\* lines, in file order.
C18_MalformedLineSkipped ==
    [][ /\ MalformedStep =>
             /\ pc' = pc
             /\ err' = err
             /\ View' = View
             /\ cur'.batchValues = cur.batchValues
        /\ LastOk' => ImportedRows' = WellFormedRows(cur'.fileId, cur'.content) ]_vars

\* a file with a malformed line between two well-formed lines was imported
C18_Witness ==
    /\ LastOk
    /\ \E k \in 2..(Len(cur.content) - 1) :
         /\ Malformed(cur.content[k])
         /\ cur.content[k - 1].k = "data" /\ ~Malformed(cur.content[k - 1])
         /\ cur.content[k + 1].k = "data" /\ ~Malformed(cur.content[k + 1])
    /\ Len(ImportedRows) >= 2


(***************************************************************************)
(* The connection pool.                                                    *)
(***************************************************************************)
\* the processFile operations that were started and have not completed
Running == { f \in 1..Len(jf) : jf[f].st # "idle" /\ ~Finished(f) }

\* C19: in the JSON importer, once 'Finished processing all files' is logged
\* and the pool is ended, every processFile operation that was started has
\* completed.
C19_PoolEndedAfterAllCompleted ==
    (script = "json" /\ poolEnded) => Running = {}


\* the processFile operations of the JSON importer that hold a client
Holding == { f \in 1..Len(jf) : jf[f].st \in {"insertGenome", "features"} }

\* C20: in the PostgreSQL importers every client acquired for a file is
\* released once, whatever the path: a sequential importer holds at most one
\* client, and none between two file imports, after a failed import or at the
\* end of the run; in the JSON importer the clients checked out are those of
\* the operations between pool.connect and the finally clause, and none is
\* checked out when the process exits.
C20_ClientReleasedOnce ==
    /\ script \in {"gff", "pgtsv"} =>
         /\ client \in {0, 1}
         /\ pc \in {"main", "loop", "thrown", "exited"} => client = 0
    /\ script = "json" =>
         /\ client = Cardinality(Holding)
         /\ pc = "exited" => client = 0

\* the ROLLBACK statement of a failed import has itself failed, and the client
\* is back in the pool
C20_Witness ==
    /\ script \in {"gff", "pgtsv"}
    /\ pc = "thrown"
    /\ Issued("ROLLBACK failed")
    /\ client = 0


(***************************************************************************)
(* Transaction statements of a file import.                                *)
(***************************************************************************)
\* statement number k of the import in progress is a ROLLBACK (whether the
\* database accepted it or not)
IsRollback(k) == txlog[k] \in {"ROLLBACK", "ROLLBACK failed"}

\* a BEGIN of this import succeeded before statement k, with no COMMIT and no
\* ROLLBACK between the two
InOwnTransaction(k) ==
    \E j \in 1..(k - 1) :
        /\ txlog[j] = "BEGIN"
        /\ \A m \in (j + 1)..(k - 1) :
             txlog[m] \notin {"COMMIT", "ROLLBACK", "ROLLBACK failed"}

\* C21: in the GFF, PostgreSQL TSV and SQLite TSV importers every ROLLBACK of
\* a file import is issued while a transaction begun by that import is
\* active: a successful BEGIN of the import precedes it, with no COMMIT or
\* ROLLBACK in between.
C21_RollbackInsideTransaction ==
    script \in {"gff", "pgtsv", "sqlite"} =>
        \A k \in 1..Len(txlog) : IsRollback(k) => InOwnTransaction(k)


(***************************************************************************)
(* Integrity of the GFF tables.                                            *)
(***************************************************************************)
\* the file_id values of the gff_files rows of the database d
FileIds(d) == { d.gff_files[k].file_id : k \in 1..Len(d.gff_files) }

\* the rows of the database d that the file with the given file_id does not own
RowsOfOthers(d, fileId) ==
    [gff_files        |-> NotOfFile(d.gff_files, fileId),
     gff_features     |-> NotOfFile(d.gff_features, fileId),
     sequence_regions |-> NotOfFile(d.sequence_regions, fileId)]

\* C22: in the GFF importer, after any sequence of imports, the committed
\* gff_files table holds at most one row per filename, every committed
\* gff_features and sequence_regions row has the file_id of a gff_files row,
\* and no step of the import of a file changes a row another file owns,
\* neither in the committed database nor in what the transaction sees.
C22_GffTablesConsistent ==
    [][ script = "gff" =>
          /\ \A j, k \in 1..Len(db'.gff_files) :
               db'.gff_files[j].filename = db'.gff_files[k].filename => j = k
          /\ \A k \in 1..Len(db'.gff_features) :
               db'.gff_features[k].file_id \in FileIds(db')
          /\ \A k \in 1..Len(db'.sequence_regions) :
               db'.sequence_regions[k].file_id \in FileIds(db')
          /\ RowsOfOthers(db', cur'.fileId) = RowsOfOthers(db, cur'.fileId)
          /\ RowsOfOthers(View', cur'.fileId) = RowsOfOthers(View, cur'.fileId) ]_vars

\* two files own committed rows, and the one imported last was imported
\* before: its record was found and its rows were replaced
C22_Witness ==
    /\ script = "gff" /\ LastOk
    /\ Len(db.gff_files) = 2
    /\ FileRecords(db0) # <<>>
    /\ \E id \in FileIds(db) : OfFile(db.sequence_regions, id) # <<>>
    /\ \E id \in FileIds(db) : OfFile(db.gff_features, id) # <<>>


(***************************************************************************)
(* The statements of the JSON importer and the schema.                     *)
(***************************************************************************)
\* C23: when the database was created by the accompanying DDL, every INSERT
\* the JSON importer is about to issue names only columns of its table and
\* gives a value to every NOT NULL column without a default: the INSERT INTO
\* genomes of an operation that holds a client, and the INSERTs of
\* insertFeature for a feature still to be inserted.
C23_InsertsFitDdl ==
    (script = "json" /\ db.ddl = "accompanying") =>
        \A f \in 1..Len(jf) :
            /\ jf[f].st = "insertGenome" => Accepted(db, InsertGenomeStmt)
            /\ (jf[f].st = "features" /\ jf[f].k < FeaturesAtMost(f)) =>
                 /\ Accepted(db, InsertFeatureStmt)
                 /\ \A st \in InsertChildStmts : Accepted(db, st)

====
